---- MODULE Spec2Model ----
(***************************************************************************)
(* Portfolio infrastructure: the platform unit (platform/index.ts and its  *)
(* builders), the app unit template (docs/adding-apps.md, index.ts) and    *)
(* the example app unit (apps/example-app).  A unit's program is run from  *)
(* top to bottom against a configuration; it appends resource declarations *)
(* to the unit's graph and exports outputs.  App units read the platform's *)
(* last deployed outputs through a stack reference.                        *)
(***************************************************************************)
EXTENDS Integers, Sequences, FiniteSets, TLC

VARIABLES
    hs,         \* priority callback: the subdomain string s
    hi,         \* priority callback: loop index i (0-based)
    hash,       \* priority callback: the local variable hash
    hprio,      \* priority callback: returned value, None until it returns
    unit,       \* the program of the current run: "platform", "template", "example"
    config,     \* the stack configuration of the current run: key -> optional string
    pc,         \* the section of the program the run is about to execute
    env,        \* the program's constants read from the configuration
    imports,    \* the values the program resolved through its stack reference
    stackRefs,  \* the stack references the run constructed, in order
    called,     \* the platform builder functions the run invoked
    decls,      \* the run's resource declarations, in construction order
    exports,    \* the run's stack outputs: name -> optional value
    snapshot,   \* the platform stack's last deployed outputs, None before any
    lastRule,   \* the listener rule the previous app deployment left on the listener
    prevDecls,  \* the declarations of the run this run follows, None in a first run
    prevConfig  \* the configuration of the run this run follows

hashVars == <<hs, hi, hash, hprio>>

runVars == <<unit, config, pc, env, imports, stackRefs, called, decls, exports>>

buildVars == <<unit, config, pc, env, imports, stackRefs, called, decls, exports,
               snapshot, lastRule, prevDecls, prevConfig>>

vars == <<hs, hi, hash, hprio, unit, config, pc, env, imports, stackRefs, called,
          decls, exports, snapshot, lastRule, prevDecls, prevConfig>>

(***************************************************************************)
(* Optional values: None is JavaScript's undefined, Some(v) a value.       *)
(***************************************************************************)
None == <<>>

Some(v) == <<v>>

IsSome(o) == o # None

Get(o) == o[1]

Range(f) == {f[x] : x \in DOMAIN f}

(***************************************************************************)
(* Strings are sequences of UTF-16 code units, written as one-character    *)
(* strings.                                                                *)
(***************************************************************************)
LowerCase == <<"a","b","c","d","e","f","g","h","i","j","k","l","m",
               "n","o","p","q","r","s","t","u","v","w","x","y","z">>

UpperCase == <<"A","B","C","D","E","F","G","H","I","J","K","L","M",
               "N","O","P","Q","R","S","T","U","V","W","X","Y","Z">>

Digits == <<"0","1","2","3","4","5","6","7","8","9">>

IndexOf(seq, ch) == CHOOSE i \in 1..Len(seq) : seq[i] = ch

\* s.charCodeAt(i) for the character ch = s[i]
CharCode(ch) ==
    CASE ch \in Range(LowerCase) -> 96 + IndexOf(LowerCase, ch)
      [] ch \in Range(UpperCase) -> 64 + IndexOf(UpperCase, ch)
      [] ch \in Range(Digits)    -> 47 + IndexOf(Digits, ch)
      [] ch = "-" -> 45
      [] ch = "." -> 46
      [] ch = "/" -> 47
      [] ch = ":" -> 58
      [] ch = "_" -> 95

(***************************************************************************)
(* JavaScript numbers.  A 32-bit integer is an Int in -2^31 .. 2^31-1.  A  *)
(* wider (exact double) intermediate is a pair <<hi, lo>> standing for     *)
(* hi * 2^16 + lo with lo in 0 .. 2^16-1.                                  *)
(***************************************************************************)
Two16 == 2^16

Lo16(x) == x % Two16

Hi16(x) == (x - Lo16(x)) \div Two16

Wide(x) == <<Hi16(x), Lo16(x)>>

WideNorm(h, l) == <<h + Hi16(l), Lo16(l)>>

WideAdd(a, b) == WideNorm(a[1] + b[1], a[2] + b[2])

WideSub(a, b) == WideNorm(a[1] - b[1], a[2] - b[2])

\* ToInt32: the conversion every bitwise operator applies to its operands
ToInt32(w) ==
    LET h == w[1] % Two16
    IN  (IF h >= 2^15 THEN h - Two16 ELSE h) * Two16 + w[2]

\* hash << 5
ShiftLeft5(h) == ToInt32(WideNorm(Hi16(h) * 32, Lo16(h) * 32))

\* x & x
BitAndSelf(w) == ToInt32(w)

\* Faulty variant of JsRem: the floored modulo, whose result is never negative.
JsRemFloored(a, n) == a % n

\* a % n of JavaScript: the remainder takes the sign of the dividend
JsRem(a, n) ==
    IF a >= 0 THEN a % n
    ELSE LET r == a % n IN IF r = 0 THEN 0 ELSE r - n

MathAbs(x) == IF x < 0 THEN -x ELSE x

(***************************************************************************)
(* Listener-rule priority (index.ts template, listenerRule.priority).      *)
(***************************************************************************)
PriorityModulus == 49000

PriorityBase == 1000

\* one iteration of the loop body:
\*   hash = ((hash << 5) - hash) + s.charCodeAt(i);  hash = hash & hash;
HashIter(h, ch) ==
    BitAndSelf(WideAdd(WideSub(Wide(ShiftLeft5(h)), Wide(h)), Wide(CharCode(ch))))

\* let hash = 0; for (...) { ... }: the loop from index i on, hash being h;
\* x names the value of h, evaluated once per iteration
RECURSIVE HashFrom(_, _, _)
HashFrom(h, s, i) ==
    IF i < Len(s)
    THEN CHOOSE r \in {HashFrom(HashIter(x, s[i + 1]), s, i + 1) : x \in {h}} : TRUE
    ELSE h

\* Faulty variant of PriorityReturn: the Math.abs call is left out.
PriorityReturnNoAbs(h) == JsRem(h, PriorityModulus) + PriorityBase

\* return Math.abs(hash % 49000) + 1000;
PriorityReturn(h) == MathAbs(JsRem(h, PriorityModulus)) + PriorityBase

\* the whole callback (s) => { ... }
priority(s) == PriorityReturn(HashFrom(0, s, 0))

(***************************************************************************)
(* String and configuration helpers.                                       *)
(***************************************************************************)
\* s.split(ch)[0]
RECURSIVE TakeUntil(_, _)
TakeUntil(s, ch) ==
    IF s = <<>> \/ Head(s) = ch THEN <<>> ELSE <<Head(s)>> \o TakeUntil(Tail(s), ch)

\* s.replace(/a/g, b)
ReplaceAll(s, a, b) == [i \in 1..Len(s) |-> IF s[i] = a THEN b ELSE s[i]]

\* parseInt(s) on a string that starts with decimal digits
RECURSIVE ParseDigits(_, _, _)
ParseDigits(s, i, acc) ==
    IF i > Len(s) \/ s[i] \notin Range(Digits) THEN acc
    ELSE ParseDigits(s, i + 1, acc * 10 + IndexOf(Digits, s[i]) - 1)

ParseInt(s) == ParseDigits(s, 1, 0)

\* n.toString() for n >= 0
RECURSIVE ToStr(_)
ToStr(n) ==
    IF n < 10 THEN <<Digits[n + 1]>> ELSE ToStr(n \div 10) \o <<Digits[(n % 10) + 1]>>

\* a template literal renders an undefined value as the text "undefined"
Interp(o) == IF IsSome(o) THEN Get(o) ELSE <<"u","n","d","e","f","i","n","e","d">>

\* JavaScript truthiness of an optional string: undefined and "" are falsy
Truthy(o) == IsSome(o) /\ Get(o) # <<>>

\* config.get(key)
ConfigGet(key) == IF key \in DOMAIN config THEN config[key] ELSE None

\* Faulty variant of GetOr: Number(config.get(key)) || dflt in effect, a configured
\* "0" is falsy and gives way to the default.
GetOrZeroFalsy(key, dflt) ==
    IF Truthy(ConfigGet(key)) /\ Get(ConfigGet(key)) # <<"0">>
    THEN Get(ConfigGet(key)) ELSE dflt

\* config.get(key) || dflt
GetOr(key, dflt) == IF Truthy(ConfigGet(key)) THEN Get(ConfigGet(key)) ELSE dflt

\* Faulty variant of GetBooleanOr: config.getBoolean(key) || false, the default lost.
GetBooleanOrFalse(key, dflt) ==
    IF IsSome(ConfigGet(key)) THEN Get(ConfigGet(key)) = <<"t","r","u","e">> ELSE FALSE

\* config.getBoolean(key) ?? dflt
GetBooleanOr(key, dflt) ==
    IF IsSome(ConfigGet(key)) THEN Get(ConfigGet(key)) = <<"t","r","u","e">> ELSE dflt

\* Faulty variant of Require: config.get(key) || "", which never throws.
RequireLax(key) == Some(GetOr(key, <<>>))

\* config.require(key) / config.requireSecret(key): the value, None when it throws
Require(key) == ConfigGet(key)

\* one of the program's require calls throws
RequireFails(keys) == \E k \in keys : Require(k) = None

\* a value the provider computes for field f of the resource declared as name
Out(name, f) == name \o <<"#", f>>

\* Faulty variant of Decl: the logical name carries a suffix that changes from
\* one run to the next.
DeclStamped(name, type, inputs) ==
    [name |-> name \o (IF prevDecls = None THEN <<"-","1">> ELSE <<"-","2">>),
     type |-> type, inputs |-> inputs]

\* new <type>(name, inputs)
Decl(name, type, inputs) == [name |-> name, type |-> type, inputs |-> inputs]

NoRecord == [x \in {} |-> None]

AllEgress ==
    <<[protocol |-> "-1", fromPort |-> 0, toPort |-> 0,
       cidrBlocks |-> <<"0.0.0.0/0">>, securityGroups |-> <<>>, self |-> FALSE]>>

(***************************************************************************)
(* The configurations tried.  At most MaxOverrides optional keys are set.  *)
(***************************************************************************)
MaxOverrides == 1

Overrides(c, keys) == Cardinality({k \in keys : c[k] # None})

PlatformOptionalKeys == {"enableSharedDatabase", "dbInstanceClass", "dbAllocatedStorage"}

PlatformConfigs ==
    { c \in [ environment          : {None, Some(<<"d","e","v">>)},
              domainName           : {None, Some(<<"a",".","i","o">>)},
              enableSharedDatabase : {None, Some(<<"t","r","u","e">>), Some(<<"f","a","l","s","e">>)},
              dbInstanceClass      : {None, Some(<<"d","b",".","t","4","g",".","s","m","a","l","l">>)},
              dbAllocatedStorage   : {None, Some(<<"5","0">>)} ] :
        Overrides(c, PlatformOptionalKeys) <= MaxOverrides }

AppNames == {None, Some(<<"m","y","-","a","p","p">>), Some(<<"a","p","i">>)}

Subdomains == {None, Some(<<"d","e","v">>), Some(<<"d","g","8">>)}

PlatformStackNames == {None, Some(<<"c","w","n","e","l","s","o","n","/","p","o","r","t","f","o","l","i","o","-","p","l","a","t","f","o","r","m","/","d","e","v">>)}

TemplateOptionalKeys ==
    {"cpu", "memory", "desiredCount", "containerPort", "useFargateSpot",
     "enableScheduledScaling", "scaleUpHour", "scaleDownHour", "scheduleTimezone"}

TemplateConfigs ==
    { c \in [ appName                : AppNames,
              subdomain              : Subdomains,
              platformStack          : PlatformStackNames,
              cpu                    : {None, Some(<<"5","1","2">>)},
              memory                 : {None, Some(<<"1","0","2","4">>)},
              desiredCount           : {None, Some(<<"0">>), Some(<<"2">>)},
              containerPort          : {None, Some(<<"8","0","8","0">>)},
              useFargateSpot         : {None, Some(<<"t","r","u","e">>), Some(<<"f","a","l","s","e">>)},
              enableScheduledScaling : {None, Some(<<"t","r","u","e">>), Some(<<"f","a","l","s","e">>)},
              scaleUpHour            : {None, Some(<<"7">>)},
              scaleDownHour          : {None, Some(<<"2","0">>)},
              scheduleTimezone       : {None, Some(<<"U","T","C">>)} ] :
        Overrides(c, TemplateOptionalKeys) <= MaxOverrides }

ExampleOptionalKeys == {"cpu", "memory", "desiredCount", "containerPort", "useFargateSpot"}

ExampleConfigs ==
    { c \in [ appName               : AppNames,
              subdomain             : Subdomains,
              platformStack         : PlatformStackNames,
              cpu                   : {None, Some(<<"5","1","2">>)},
              memory                : {None, Some(<<"1","0","2","4">>)},
              desiredCount          : {None, Some(<<"0">>), Some(<<"2">>)},
              containerPort         : {None, Some(<<"8","0","8","0">>)},
              useFargateSpot        : {None, Some(<<"t","r","u","e">>), Some(<<"f","a","l","s","e">>)},
              cloudflareTunnelToken : {None, Some(<<"t","o","k">>)} ] :
        Overrides(c, ExampleOptionalKeys) <= MaxOverrides }

(***************************************************************************)
(* Runs.  `pulumi up` starts a unit's program on a configuration; a run    *)
(* that reaches the end of the program is deployed and its outputs become  *)
(* the stack's snapshot; a run that throws ends with nothing applied.      *)
(***************************************************************************)
Idle ==
    /\ unit = "idle"
    /\ config = NoRecord
    /\ pc = "idle"
    /\ env = NoRecord
    /\ imports = NoRecord
    /\ stackRefs = <<>>
    /\ called = {}
    /\ decls = <<>>
    /\ exports = NoRecord

Begin(u, c) ==
    /\ unit' = u
    /\ config' = c
    /\ pc' = "config"
    /\ UNCHANGED <<hashVars, env, imports, stackRefs, called, decls, exports,
                   snapshot, lastRule, prevDecls, prevConfig>>

\* pulumi up, in platform/
StartPlatform ==
    /\ unit = "idle"
    /\ \E c \in PlatformConfigs : Begin("platform", c)

\* pulumi up, in an app repository made from the template; the platform stack it
\* names exists, with the outputs of its last deployment or with none yet
StartTemplate ==
    /\ unit = "idle"
    /\ \E c \in TemplateConfigs : Begin("template", c)

\* pulumi up, in apps/example-app
StartExample ==
    /\ unit = "idle"
    /\ \E c \in ExampleConfigs : Begin("example", c)

Goto(p) == pc' = p

Declare(ds) == decls' = decls \o ds

(***************************************************************************)
(* The platform unit: platform/index.ts and its builders.                  *)
(***************************************************************************)
PlatformRequired == {"environment", "domainName"}

PlatformEnv ==
    [ environment          |-> Get(Require("environment")),
      domainName           |-> Get(Require("domainName")),
      enableSharedDatabase |-> GetBooleanOr("enableSharedDatabase", TRUE),
      dbInstanceClass      |-> GetOr("dbInstanceClass", <<"d","b",".","t","4","g",".","m","i","c","r","o">>),
      dbAllocatedStorage   |-> ParseInt(GetOr("dbAllocatedStorage", <<"2","0">>)),
      name                 |-> <<"p","o","r","t","f","o","l","i","o","-">> \o Get(Require("environment")) ]

\* const config = ...; const name = `${projectName}-${environment}`;
PlatformConfig ==
    /\ unit = "platform" /\ pc = "config"
    /\ IF RequireFails(PlatformRequired)
       THEN Goto("failed") /\ UNCHANGED env
       ELSE Goto("vpc") /\ env' = PlatformEnv
    /\ UNCHANGED <<hashVars, unit, config, imports, stackRefs, called, decls, exports,
                   snapshot, lastRule, prevDecls, prevConfig>>

SubnetCount == 2

\* the body of  for (let i = 0; i < 2; i++) { ... }  for one i
SubnetPair(name, i) ==
    << Decl(name \o <<"-","p","u","b","l","i","c","-">> \o ToStr(i), "aws.ec2.Subnet",
            [vpcId |-> Out(name \o <<"-","v","p","c">>, "id"),
             cidrBlock |-> <<"1","0",".","0",".">> \o ToStr(i) \o <<".","0","/","2","4">>,
             mapPublicIpOnLaunch |-> TRUE]),
       Decl(name \o <<"-","p","r","i","v","a","t","e","-">> \o ToStr(i), "aws.ec2.Subnet",
            [vpcId |-> Out(name \o <<"-","v","p","c">>, "id"),
             cidrBlock |-> <<"1","0",".","0",".">> \o ToStr(i + 10) \o <<".","0","/","2","4">>,
             mapPublicIpOnLaunch |-> FALSE]) >>

RECURSIVE SubnetLoop(_, _)
SubnetLoop(name, i) ==
    IF i < SubnetCount THEN SubnetPair(name, i) \o SubnetLoop(name, i + 1) ELSE <<>>

\* Faulty variant of RouteAssociations: the logical name leaves out the index.
RouteAssociationsUnindexed(name) ==
    [ i \in 1..SubnetCount |->
        Decl(name \o <<"-","p","u","b","l","i","c","-","r","t","a">>, "aws.ec2.RouteTableAssociation",
             [subnetId |-> Out(name \o <<"-","p","u","b","l","i","c","-">> \o ToStr(i - 1), "id"),
              routeTableId |-> Out(name \o <<"-","p","u","b","l","i","c","-","r","t">>, "id")]) ]

\* publicSubnets.forEach((subnet, i) => new aws.ec2.RouteTableAssociation(...))
RouteAssociations(name) ==
    [ i \in 1..SubnetCount |->
        Decl(name \o <<"-","p","u","b","l","i","c","-","r","t","a","-">> \o ToStr(i - 1), "aws.ec2.RouteTableAssociation",
             [subnetId |-> Out(name \o <<"-","p","u","b","l","i","c","-">> \o ToStr(i - 1), "id"),
              routeTableId |-> Out(name \o <<"-","p","u","b","l","i","c","-","r","t">>, "id")]) ]

VpcDecls(name) ==
    << Decl(name \o <<"-","v","p","c">>, "aws.ec2.Vpc", [cidrBlock |-> <<"1","0",".","0",".","0",".","0","/","1","6">>]),
       Decl(name \o <<"-","i","g","w">>, "aws.ec2.InternetGateway",
            [vpcId |-> Out(name \o <<"-","v","p","c">>, "id")]) >>
    \o SubnetLoop(name, 0)
    \o << Decl(name \o <<"-","p","u","b","l","i","c","-","r","t">>, "aws.ec2.RouteTable",
               [vpcId |-> Out(name \o <<"-","v","p","c">>, "id"),
                gatewayId |-> Out(name \o <<"-","i","g","w">>, "id")]) >>
    \o RouteAssociations(name)
    \o << Decl(name \o <<"-","d","e","f","a","u","l","t","-","s","g">>, "aws.ec2.SecurityGroup",
               [vpcId |-> Out(name \o <<"-","v","p","c">>, "id"),
                ingress |-> <<[protocol |-> "-1", fromPort |-> 0, toPort |-> 0,
                               cidrBlocks |-> <<>>, securityGroups |-> <<>>,
                               self |-> TRUE]>>,
                egress |-> AllEgress]) >>

VpcOutputs(name) ==
    [ vpcId |-> Out(name \o <<"-","v","p","c">>, "id"),
      publicSubnetIds |->
          [i \in 1..SubnetCount |-> Out(name \o <<"-","p","u","b","l","i","c","-">> \o ToStr(i - 1), "id")],
      privateSubnetIds |->
          [i \in 1..SubnetCount |-> Out(name \o <<"-","p","r","i","v","a","t","e","-">> \o ToStr(i - 1), "id")],
      defaultSecurityGroupId |-> Out(name \o <<"-","d","e","f","a","u","l","t","-","s","g">>, "id") ]

\* const vpc = createVpc(name, tags);
PlatformVpc ==
    /\ unit = "platform" /\ pc = "vpc"
    /\ called' = called \cup {"createVpc"}
    /\ Declare(VpcDecls(env.name))
    /\ env' = env @@ ("vpc" :> VpcOutputs(env.name))
    /\ Goto("dns")
    /\ UNCHANGED <<hashVars, unit, config, imports, stackRefs, exports, snapshot, lastRule, prevDecls, prevConfig>>

\* createDns looks the zone and the certificate up; it declares no resource
DnsOutputs(domainName) ==
    [ hostedZoneId |-> Out(<<"z","o","n","e",":">> \o domainName, "id"),
      certificateArn |-> Some(Out(<<"c","e","r","t","i","f","i","c","a","t","e",":">> \o domainName, "arn")),
      domainName |-> domainName ]

\* const dns = createDns(name, { domainName, tags });
PlatformDns ==
    /\ unit = "platform" /\ pc = "dns"
    /\ called' = called \cup {"createDns"}
    /\ env' = env @@ ("dns" :> DnsOutputs(env.domainName))
    /\ Goto("alb")
    /\ UNCHANGED <<hashVars, unit, config, imports, stackRefs, decls, exports,
                   snapshot, lastRule, prevDecls, prevConfig>>

NotFound == [type |-> "fixed-response", statusCode |-> "404"]

AlbDecls(name, inputs) ==
    << Decl(name \o <<"-","a","l","b","-","s","g">>, "aws.ec2.SecurityGroup",
            [vpcId |-> inputs.vpcId,
             ingress |-> <<[protocol |-> "tcp", fromPort |-> 80, toPort |-> 80,
                            cidrBlocks |-> <<"0.0.0.0/0">>, securityGroups |-> <<>>,
                            self |-> FALSE],
                           [protocol |-> "tcp", fromPort |-> 443, toPort |-> 443,
                            cidrBlocks |-> <<"0.0.0.0/0">>, securityGroups |-> <<>>,
                            self |-> FALSE]>>,
             egress |-> AllEgress]),
       Decl(name \o <<"-","a","l","b">>, "aws.lb.LoadBalancer",
            [internal |-> FALSE, loadBalancerType |-> "application",
             securityGroups |-> <<Out(name \o <<"-","a","l","b","-","s","g">>, "id")>>,
             subnets |-> inputs.publicSubnetIds]),
       Decl(name \o <<"-","h","t","t","p","-","l","i","s","t","e","n","e","r">>, "aws.lb.Listener",
            [loadBalancerArn |-> Out(name \o <<"-","a","l","b">>, "arn"),
             port |-> 80, protocol |-> "HTTP", defaultActions |-> <<NotFound>>]) >>
    \o (IF IsSome(inputs.certificateArn)
        THEN << Decl(name \o <<"-","h","t","t","p","s","-","l","i","s","t","e","n","e","r">>, "aws.lb.Listener",
                     [loadBalancerArn |-> Out(name \o <<"-","a","l","b">>, "arn"),
                      port |-> 443, protocol |-> "HTTPS",
                      sslPolicy |-> "ELBSecurityPolicy-TLS13-1-2-2021-06",
                      certificateArn |-> Get(inputs.certificateArn),
                      defaultActions |-> <<NotFound>>]) >>
        ELSE <<>>)

\* Faulty variant of AlbOutputs: httpsListenerArn is httpsListener.arn with no
\* fallback to the HTTP listener.
AlbOutputsNoFallback(name, inputs) ==
    [ albArn |-> Out(name \o <<"-","a","l","b">>, "arn"),
      albDnsName |-> Out(name \o <<"-","a","l","b">>, "dnsName"),
      albZoneId |-> Out(name \o <<"-","a","l","b">>, "zoneId"),
      httpListenerArn |-> Out(name \o <<"-","h","t","t","p","-","l","i","s","t","e","n","e","r">>, "arn"),
      httpsListenerArn |-> Out(name \o <<"-","h","t","t","p","s","-","l","i","s","t","e","n","e","r">>, "arn"),
      albSecurityGroupId |-> Out(name \o <<"-","a","l","b","-","s","g">>, "id") ]

\* return { albArn, ..., httpsListenerArn: httpsListener?.arn || httpListener.arn, ... }
AlbOutputs(name, inputs) ==
    [ albArn |-> Out(name \o <<"-","a","l","b">>, "arn"),
      albDnsName |-> Out(name \o <<"-","a","l","b">>, "dnsName"),
      albZoneId |-> Out(name \o <<"-","a","l","b">>, "zoneId"),
      httpListenerArn |-> Out(name \o <<"-","h","t","t","p","-","l","i","s","t","e","n","e","r">>, "arn"),
      httpsListenerArn |->
          IF IsSome(inputs.certificateArn)
          THEN Out(name \o <<"-","h","t","t","p","s","-","l","i","s","t","e","n","e","r">>, "arn")
          ELSE Out(name \o <<"-","h","t","t","p","-","l","i","s","t","e","n","e","r">>, "arn"),
      albSecurityGroupId |-> Out(name \o <<"-","a","l","b","-","s","g">>, "id") ]

AlbInputs ==
    [ vpcId |-> env.vpc.vpcId,
      publicSubnetIds |-> env.vpc.publicSubnetIds,
      certificateArn |-> env.dns.certificateArn ]

\* const alb = createAlb(name, { vpcId, publicSubnetIds, certificateArn, tags });
PlatformAlb ==
    /\ unit = "platform" /\ pc = "alb"
    /\ called' = called \cup {"createAlb"}
    /\ Declare(AlbDecls(env.name, AlbInputs))
    /\ env' = env @@ ("alb" :> AlbOutputs(env.name, AlbInputs))
    /\ Goto("ecs")
    /\ UNCHANGED <<hashVars, unit, config, imports, stackRefs, exports, snapshot, lastRule, prevDecls, prevConfig>>

SpotStrategies ==
    << [capacityProvider |-> "FARGATE_SPOT", weight |-> 1, base |-> 0],
       [capacityProvider |-> "FARGATE", weight |-> 0, base |-> 1] >>

EcsDecls(name) ==
    << Decl(name \o <<"-","c","l","u","s","t","e","r">>, "aws.ecs.Cluster", [name |-> name \o <<"-","c","l","u","s","t","e","r">>]),
       Decl(name \o <<"-","c","a","p","a","c","i","t","y","-","p","r","o","v","i","d","e","r","s">>, "aws.ecs.ClusterCapacityProviders",
            [clusterName |-> Out(name \o <<"-","c","l","u","s","t","e","r">>, "name"),
             capacityProviders |-> <<"FARGATE", "FARGATE_SPOT">>,
             defaultCapacityProviderStrategies |-> SpotStrategies]),
       Decl(name \o <<"-","t","a","s","k","-","e","x","e","c","u","t","i","o","n","-","r","o","l","e">>, "aws.iam.Role",
            [service |-> "ecs-tasks.amazonaws.com"]),
       Decl(name \o <<"-","t","a","s","k","-","e","x","e","c","u","t","i","o","n","-","p","o","l","i","c","y">>, "aws.iam.RolePolicyAttachment",
            [role |-> Out(name \o <<"-","t","a","s","k","-","e","x","e","c","u","t","i","o","n","-","r","o","l","e">>, "name")]),
       Decl(name \o <<"-","t","a","s","k","-","e","x","e","c","u","t","i","o","n","-","s","e","c","r","e","t","s">>, "aws.iam.RolePolicy",
            [role |-> Out(name \o <<"-","t","a","s","k","-","e","x","e","c","u","t","i","o","n","-","r","o","l","e">>, "name")]),
       Decl(name \o <<"-","t","a","s","k","-","r","o","l","e">>, "aws.iam.Role",
            [service |-> "ecs-tasks.amazonaws.com"]),
       Decl(name \o <<"-","t","a","s","k","-","p","o","l","i","c","y">>, "aws.iam.RolePolicy",
            [role |-> Out(name \o <<"-","t","a","s","k","-","r","o","l","e">>, "name")]) >>

EcsOutputs(name) ==
    [ clusterArn |-> Out(name \o <<"-","c","l","u","s","t","e","r">>, "arn"),
      clusterName |-> Out(name \o <<"-","c","l","u","s","t","e","r">>, "name"),
      taskExecutionRoleArn |-> Out(name \o <<"-","t","a","s","k","-","e","x","e","c","u","t","i","o","n","-","r","o","l","e">>, "arn"),
      taskRoleArn |-> Out(name \o <<"-","t","a","s","k","-","r","o","l","e">>, "arn") ]

\* const ecs = createEcsCluster(name, tags);
PlatformEcs ==
    /\ unit = "platform" /\ pc = "ecs"
    /\ called' = called \cup {"createEcsCluster"}
    /\ Declare(EcsDecls(env.name))
    /\ env' = env @@ ("ecs" :> EcsOutputs(env.name))
    /\ Goto("rds")
    /\ UNCHANGED <<hashVars, unit, config, imports, stackRefs, exports, snapshot, lastRule, prevDecls, prevConfig>>

DbPort == 5432

RdsDecls(name, inputs) ==
    << Decl(name \o <<"-","s","u","b","n","e","t","-","g","r","o","u","p">>, "aws.rds.SubnetGroup",
            [subnetIds |-> inputs.subnetIds]),
       Decl(name \o <<"-","d","b","-","s","g">>, "aws.ec2.SecurityGroup",
            [vpcId |-> inputs.vpcId,
             ingress |-> [ i \in 1..Len(inputs.allowedSecurityGroupIds) |->
                            [protocol |-> "tcp", fromPort |-> DbPort, toPort |-> DbPort,
                             cidrBlocks |-> <<>>,
                             securityGroups |-> <<inputs.allowedSecurityGroupIds[i]>>,
                             self |-> FALSE] ],
             egress |-> AllEgress]),
       Decl(name \o <<"-","d","b","-","p","a","s","s","w","o","r","d">>, "random.RandomPassword", [length |-> 32]),
       Decl(name \o <<"-","d","b","-","s","e","c","r","e","t">>, "aws.secretsmanager.Secret",
            [name |-> name \o <<"/","d","b","-","p","a","s","s","w","o","r","d">>]),
       Decl(name \o <<"-","d","b","-","s","e","c","r","e","t","-","v","e","r","s","i","o","n">>, "aws.secretsmanager.SecretVersion",
            [secretId |-> Out(name \o <<"-","d","b","-","s","e","c","r","e","t">>, "id"),
             secretString |-> Out(name \o <<"-","d","b","-","p","a","s","s","w","o","r","d">>, "result")]),
       Decl(name \o <<"-","p","o","s","t","g","r","e","s">>, "aws.rds.Instance",
            [identifier |-> name \o <<"-","p","o","s","t","g","r","e","s">>,
             engine |-> "postgres",
             instanceClass |-> inputs.instanceClass,
             allocatedStorage |-> inputs.allocatedStorage,
             dbName |-> <<"p","o","r","t","f","o","l","i","o">>,
             username |-> <<"p","o","r","t","f","o","l","i","o","_","a","d","m","i","n">>,
             password |-> Out(name \o <<"-","d","b","-","p","a","s","s","w","o","r","d">>, "result"),
             dbSubnetGroupName |-> Out(name \o <<"-","s","u","b","n","e","t","-","g","r","o","u","p">>, "name"),
             vpcSecurityGroupIds |-> <<Out(name \o <<"-","d","b","-","s","g">>, "id")>>,
             publiclyAccessible |-> FALSE]) >>

\* db.endpoint is the provider's "address:port"
RdsOutputs(name) ==
    [ dbEndpoint |-> Out(name \o <<"-","p","o","s","t","g","r","e","s">>, "address") \o <<":","5","4","3","2">>,
      dbPort |-> DbPort,
      dbName |-> <<"p","o","r","t","f","o","l","i","o">>,
      dbUsername |-> <<"p","o","r","t","f","o","l","i","o","_","a","d","m","i","n">>,
      dbPasswordSecretArn |-> Out(name \o <<"-","d","b","-","s","e","c","r","e","t">>, "arn"),
      dbSecurityGroupId |-> Out(name \o <<"-","d","b","-","s","g">>, "id") ]

\* Faulty variant of RdsInputs: the database admits the load balancer's
\* security group instead of the default one.
RdsInputsFromAlb ==
    [ vpcId |-> env.vpc.vpcId,
      subnetIds |-> env.vpc.privateSubnetIds,
      allowedSecurityGroupIds |-> <<env.alb.albSecurityGroupId>>,
      instanceClass |-> env.dbInstanceClass,
      allocatedStorage |-> env.dbAllocatedStorage ]

\* { vpcId, subnetIds, allowedSecurityGroupIds: [vpc.defaultSecurityGroupId], ... }
RdsInputs ==
    [ vpcId |-> env.vpc.vpcId,
      subnetIds |-> env.vpc.privateSubnetIds,
      allowedSecurityGroupIds |-> <<env.vpc.defaultSecurityGroupId>>,
      instanceClass |-> env.dbInstanceClass,
      allocatedStorage |-> env.dbAllocatedStorage ]

\* Faulty variant of RdsGate: createRds is called unconditionally.
RdsGateOpen(e) == TRUE

\* the gate of  if (enableSharedDatabase) { rds = createRds(...) }
RdsGate(e) == e.enableSharedDatabase

\* let rds; if (enableSharedDatabase) { rds = createRds(name, {...}); }
PlatformRds ==
    /\ unit = "platform" /\ pc = "rds"
    /\ IF RdsGate(env)
       THEN /\ called' = called \cup {"createRds"}
            /\ Declare(RdsDecls(env.name, RdsInputs))
            /\ env' = env @@ ("rds" :> Some(RdsOutputs(env.name)))
       ELSE /\ env' = env @@ ("rds" :> None)
            /\ UNCHANGED <<called, decls>>
    /\ Goto("logs")
    /\ UNCHANGED <<hashVars, unit, config, imports, stackRefs, exports, snapshot, lastRule, prevDecls, prevConfig>>

\* const logGroup = new aws.cloudwatch.LogGroup(`${name}-logs`, {...});
PlatformLogGroup ==
    /\ unit = "platform" /\ pc = "logs"
    /\ Declare(<< Decl(env.name \o <<"-","l","o","g","s">>, "aws.cloudwatch.LogGroup",
                       [name |-> <<"/","e","c","s","/">> \o env.name, retentionInDays |-> 14]) >>)
    /\ Goto("exports")
    /\ UNCHANGED <<hashVars, unit, config, env, imports, stackRefs, called, exports,
                   snapshot, lastRule, prevDecls, prevConfig>>

\* rds?.field
RdsField(e, f) == IF IsSome(e.rds) THEN Some(Get(e.rds)[f]) ELSE None

\* one statement  export const n = v;  an undefined v is None
Export(n, v) == [name |-> n, value |-> v]

VpcExports(e) ==
    << Export("vpcId", Some(e.vpc.vpcId)),
       Export("publicSubnetIds", Some(e.vpc.publicSubnetIds)),
       Export("privateSubnetIds", Some(e.vpc.privateSubnetIds)),
       Export("defaultSecurityGroupId", Some(e.vpc.defaultSecurityGroupId)) >>

AlbExports(e) ==
    << Export("albArn", Some(e.alb.albArn)),
       Export("albDnsName", Some(e.alb.albDnsName)),
       Export("albZoneId", Some(e.alb.albZoneId)),
       Export("httpListenerArn", Some(e.alb.httpListenerArn)),
       Export("httpsListenerArn", Some(e.alb.httpsListenerArn)),
       Export("albSecurityGroupId", Some(e.alb.albSecurityGroupId)) >>

\* Faulty variant of DnsExports: the certificateArn export is missing.
DnsExportsZoneOnly(e) == << Export("hostedZoneId", Some(e.dns.hostedZoneId)) >>

DnsExports(e) ==
    << Export("hostedZoneId", Some(e.dns.hostedZoneId)),
       Export("certificateArn", e.dns.certificateArn) >>

EcsExports(e) ==
    << Export("clusterArn", Some(e.ecs.clusterArn)),
       Export("clusterName", Some(e.ecs.clusterName)),
       Export("taskExecutionRoleArn", Some(e.ecs.taskExecutionRoleArn)),
       Export("taskRoleArn", Some(e.ecs.taskRoleArn)) >>

DbExports(e) ==
    << Export("dbEndpoint", RdsField(e, "dbEndpoint")),
       Export("dbPort", RdsField(e, "dbPort")),
       Export("dbName", RdsField(e, "dbName")),
       Export("dbUsername", RdsField(e, "dbUsername")),
       Export("dbPasswordSecretArn", RdsField(e, "dbPasswordSecretArn")),
       Export("dbSecurityGroupId", RdsField(e, "dbSecurityGroupId")) >>

LogExports(e) == << Export("logGroupName", Some(Out(e.name \o <<"-","l","o","g","s">>, "name"))) >>

MetadataExports(e) ==
    << Export("environment", Some(e.environment)),
       Export("domainName", Some(e.domainName)),
       Export("region", Some(Out(<<"a","w","s",":","r","e","g","i","o","n">>, "name"))) >>

\* the export statements of platform/index.ts, in source order
PlatformExportStatements(e) ==
    VpcExports(e) \o AlbExports(e) \o DnsExports(e) \o EcsExports(e) \o DbExports(e)
    \o LogExports(e) \o MetadataExports(e)

\* the stack's outputs: name -> value of the statement exporting it
PlatformExportsOf(e) ==
    LET st == PlatformExportStatements(e)
    IN  [ n \in {st[i].name : i \in DOMAIN st} |->
            st[CHOOSE i \in DOMAIN st : st[i].name = n].value ]

PlatformExports ==
    /\ unit = "platform" /\ pc = "exports"
    /\ exports' = PlatformExportsOf(env)
    /\ Goto("done")
    /\ UNCHANGED <<hashVars, unit, config, env, imports, stackRefs, called, decls,
                   snapshot, lastRule, prevDecls, prevConfig>>

(***************************************************************************)
(* The app unit template: index.ts of docs/adding-apps.md.  Constant       *)
(* fields no property reads (tags, scan settings, timeouts) are left out.  *)
(***************************************************************************)
AppRequired == {"appName", "subdomain", "platformStack"}

\* platformStack.getOutput(name): undefined when the snapshot has no such output
GetOutput(name) ==
    IF IsSome(snapshot) /\ name \in DOMAIN Get(snapshot) THEN Get(snapshot)[name] ELSE None

TemplateEnv ==
    [ appName                |-> Get(Require("appName")),
      subdomain              |-> Get(Require("subdomain")),
      platformStackName      |-> Get(Require("platformStack")),
      cpu                    |-> ParseInt(GetOr("cpu", <<"2","5","6">>)),
      memory                 |-> ParseInt(GetOr("memory", <<"5","1","2">>)),
      desiredCount           |-> ParseInt(GetOr("desiredCount", <<"1">>)),
      containerPort          |-> ParseInt(GetOr("containerPort", <<"3","0","0","0">>)),
      useFargateSpot         |-> GetBooleanOr("useFargateSpot", TRUE),
      enableScheduledScaling |-> GetBooleanOr("enableScheduledScaling", FALSE),
      scaleUpHour            |-> ParseInt(GetOr("scaleUpHour", <<"6">>)),
      scaleDownHour          |-> ParseInt(GetOr("scaleDownHour", <<"2","2">>)),
      scheduleTimezone       |-> GetOr("scheduleTimezone", <<"A","m","e","r","i","c","a","/","D","e","n","v","e","r">>) ]

\* const config = new pulumi.Config(); ... const scheduleTimezone = ...;
TemplateConfig ==
    /\ unit = "template" /\ pc = "config"
    /\ IF RequireFails(AppRequired)
       THEN Goto("failed") /\ UNCHANGED env
       ELSE Goto("imports") /\ env' = TemplateEnv
    /\ UNCHANGED <<hashVars, unit, config, imports, stackRefs, called, decls, exports,
                   snapshot, lastRule, prevDecls, prevConfig>>

\* Faulty variant of TemplateImportNames: the app also reads an output the
\* platform index has no export statement for.
TemplateImportNamesWithRouter ==
    {"vpcId", "publicSubnetIds", "defaultSecurityGroupId", "clusterArn", "clusterName",
     "taskExecutionRoleArn", "taskRoleArn", "httpsListenerArn", "albSecurityGroupId",
     "albDnsName", "domainName", "logGroupName", "region", "dbEndpoint",
     "dbPasswordSecretArn", "tailscaleSecurityGroupId"}

\* the names of the platformStack.getOutput(...) calls
TemplateImportNames ==
    {"vpcId", "publicSubnetIds", "defaultSecurityGroupId", "clusterArn", "clusterName",
     "taskExecutionRoleArn", "taskRoleArn", "httpsListenerArn", "albSecurityGroupId",
     "albDnsName", "domainName", "logGroupName", "region", "dbEndpoint",
     "dbPasswordSecretArn"}

\* Faulty variant of StackReference: a reference is constructed again for a
\* second group of imports.
StackReferenceTwice(name) == stackRefs' = stackRefs \o <<name, name>>

\* new pulumi.StackReference(name)
StackReference(name) == stackRefs' = Append(stackRefs, name)

\* const platformStack = new pulumi.StackReference(platformStackName); ... getOutput(...)
TemplateImports ==
    /\ unit = "template" /\ pc = "imports"
    /\ StackReference(env.platformStackName)
    /\ imports' = [n \in TemplateImportNames |-> GetOutput(n)]
    /\ Goto("ecr")
    /\ UNCHANGED <<hashVars, unit, config, env, called, decls, exports, snapshot, lastRule, prevDecls, prevConfig>>

\* Faulty variant of EcrDecls: the lifecycle policy is constructed before the
\* repository it names.
EcrDeclsPolicyFirst(appName) ==
    << Decl(appName \o <<"-","l","i","f","e","c","y","c","l","e">>, "aws.ecr.LifecyclePolicy",
            [repository |-> Out(appName \o <<"-","r","e","p","o">>, "name"), countNumber |-> 10]),
       Decl(appName \o <<"-","r","e","p","o">>, "aws.ecr.Repository",
            [name |-> <<"p","o","r","t","f","o","l","i","o","/">> \o appName, imageTagMutability |-> "MUTABLE"]) >>

\* const repo = new aws.ecr.Repository(...); new aws.ecr.LifecyclePolicy(...)
EcrDecls(appName) ==
    << Decl(appName \o <<"-","r","e","p","o">>, "aws.ecr.Repository",
            [name |-> <<"p","o","r","t","f","o","l","i","o","/">> \o appName, imageTagMutability |-> "MUTABLE"]),
       Decl(appName \o <<"-","l","i","f","e","c","y","c","l","e">>, "aws.ecr.LifecyclePolicy",
            [repository |-> Out(appName \o <<"-","r","e","p","o">>, "name"), countNumber |-> 10]) >>

TemplateEcr ==
    /\ unit = "template" /\ pc = "ecr"
    /\ Declare(EcrDecls(env.appName))
    /\ Goto("sg")
    /\ UNCHANGED <<hashVars, unit, config, env, imports, stackRefs, called, exports,
                   snapshot, lastRule, prevDecls, prevConfig>>

\* Faulty variant of TemplateSgDecl: the container port is open to every address.
TemplateSgDeclOpen(e, imp) ==
    Decl(e.appName \o <<"-","s","g">>, "aws.ec2.SecurityGroup",
         [vpcId |-> imp.vpcId,
          ingress |-> <<[protocol |-> "tcp", fromPort |-> e.containerPort,
                         toPort |-> e.containerPort, cidrBlocks |-> <<"0.0.0.0/0">>,
                         securityGroups |-> <<>>, self |-> FALSE]>>,
          egress |-> AllEgress])

\* const appSg = new aws.ec2.SecurityGroup(`${appName}-sg`, { ingress: [from ALB] })
TemplateSgDecl(e, imp) ==
    Decl(e.appName \o <<"-","s","g">>, "aws.ec2.SecurityGroup",
         [vpcId |-> imp.vpcId,
          ingress |-> <<[protocol |-> "tcp", fromPort |-> e.containerPort,
                         toPort |-> e.containerPort, cidrBlocks |-> <<>>,
                         securityGroups |-> <<imp.albSecurityGroupId>>, self |-> FALSE]>>,
          egress |-> AllEgress])

TemplateSg ==
    /\ unit = "template" /\ pc = "sg"
    /\ Declare(<<TemplateSgDecl(env, imports)>>)
    /\ Goto("targetGroup")
    /\ UNCHANGED <<hashVars, unit, config, env, imports, stackRefs, called, exports,
                   snapshot, lastRule, prevDecls, prevConfig>>

\* Faulty variant of TargetGroupDecl: the target group listens on the default
\* port whatever containerPort is configured.
TargetGroupDeclFixedPort(e, imp) ==
    Decl(e.appName \o <<"-","t","g">>, "aws.lb.TargetGroup",
         [port |-> 3000, protocol |-> "HTTP", vpcId |-> imp.vpcId,
          targetType |-> "ip", healthCheckPath |-> <<"/","h","e","a","l","t","h">>, matcher |-> <<"2","0","0">>])

\* const targetGroup = new aws.lb.TargetGroup(`${appName}-tg`, {...})
TargetGroupDecl(e, imp) ==
    Decl(e.appName \o <<"-","t","g">>, "aws.lb.TargetGroup",
         [port |-> e.containerPort, protocol |-> "HTTP", vpcId |-> imp.vpcId,
          targetType |-> "ip", healthCheckPath |-> <<"/","h","e","a","l","t","h">>, matcher |-> <<"2","0","0">>])

TemplateTargetGroup ==
    /\ unit = "template" /\ pc = "targetGroup"
    /\ Declare(<<TargetGroupDecl(env, imports)>>)
    /\ Goto("listenerRule")
    /\ UNCHANGED <<hashVars, unit, config, env, imports, stackRefs, called, exports,
                   snapshot, lastRule, prevDecls, prevConfig>>

\* pulumi.interpolate`${subdomain}.${domainName}`
FullHostname(e, imp) == e.subdomain \o <<".">> \o Interp(imp.domainName)

\* Faulty variant of ListenerRulePriority: the hash is taken of the app name.
ListenerRulePriorityOfName(e, imp) == priority(e.appName)

\* Faulty variant of ListenerRulePriority: a priority the deployed rule of another
\* subdomain holds on the same listener is stepped over.
ListenerRulePriorityProbed(e, imp) ==
    IF /\ lastRule # None
       /\ Get(lastRule).listenerArn = imp.httpsListenerArn
       /\ Get(lastRule).subdomain # e.subdomain
       /\ Get(lastRule).priority = priority(e.subdomain)
    THEN priority(e.subdomain) + 1
    ELSE priority(e.subdomain)

\* priority: pulumi.output(subdomain).apply((s) => { ... })
ListenerRulePriority(e, imp) == priority(e.subdomain)

ListenerRuleDecl(e, imp) ==
    Decl(e.appName \o <<"-","r","u","l","e">>, "aws.lb.ListenerRule",
         [listenerArn |-> imp.httpsListenerArn,
          priority |-> ListenerRulePriority(e, imp),
          hostHeader |-> <<FullHostname(e, imp)>>,
          actions |-> <<[type |-> "forward",
                         targetGroupArn |-> Out(e.appName \o <<"-","t","g">>, "arn")]>>])

TemplateListenerRule ==
    /\ unit = "template" /\ pc = "listenerRule"
    /\ Declare(<<ListenerRuleDecl(env, imports)>>)
    /\ Goto("taskDefinition")
    /\ UNCHANGED <<hashVars, unit, config, env, imports, stackRefs, called, exports,
                   snapshot, lastRule, prevDecls, prevConfig>>

\* Faulty variant of ContainerEnv: with scheduled scaling on, the container is
\* told so by one more environment entry.
ContainerEnvScaled(e) ==
    << [name |-> "NODE_ENV", value |-> <<"p","r","o","d","u","c","t","i","o","n">>],
       [name |-> "PORT", value |-> ToStr(e.containerPort)] >>
    \o (IF "enableScheduledScaling" \in DOMAIN e /\ e.enableScheduledScaling
        THEN << [name |-> "SCHEDULED_SCALING", value |-> <<"t","r","u","e">>] >>
        ELSE <<>>)

\* const containerEnv = [NODE_ENV, PORT]
ContainerEnv(e) ==
    << [name |-> "NODE_ENV", value |-> <<"p","r","o","d","u","c","t","i","o","n">>],
       [name |-> "PORT", value |-> ToStr(e.containerPort)] >>

\* Faulty variant of DbEnv: DB_NAME is the app name as it is, hyphens kept.
DbEnvRawName(e, dbHost) ==
    IF Truthy(dbHost)
    THEN << [name |-> "DB_HOST", value |-> TakeUntil(Get(dbHost), ":")],
            [name |-> "DB_PORT", value |-> <<"5","4","3","2">>],
            [name |-> "DB_NAME", value |-> e.appName],
            [name |-> "DB_USER", value |-> <<"p","o","r","t","f","o","l","i","o","_","a","d","m","i","n">>] >>
    ELSE <<>>

\* if (dbHost) { env.push(DB_HOST, DB_PORT, DB_NAME, DB_USER) }
DbEnv(e, dbHost) ==
    IF Truthy(dbHost)
    THEN << [name |-> "DB_HOST", value |-> TakeUntil(Get(dbHost), ":")],
            [name |-> "DB_PORT", value |-> <<"5","4","3","2">>],
            [name |-> "DB_NAME", value |-> ReplaceAll(e.appName, "-", "_")],
            [name |-> "DB_USER", value |-> <<"p","o","r","t","f","o","l","i","o","_","a","d","m","i","n">>] >>
    ELSE <<>>

\* Faulty variant of DbSecrets: the secret is pushed without the if.
DbSecretsUnguarded(dbSecretArn) ==
    << [name |-> "DB_PASSWORD", valueFrom |-> Interp(dbSecretArn)] >>

\* if (dbSecretArn) { secrets.push(DB_PASSWORD) }
DbSecrets(dbSecretArn) ==
    IF Truthy(dbSecretArn)
    THEN << [name |-> "DB_PASSWORD", valueFrom |-> Get(dbSecretArn)] >>
    ELSE <<>>

\* the app container of the array the apply callback returns
AppContainer(e, imp) ==
    LET secrets == DbSecrets(imp.dbPasswordSecretArn)
    IN  [ name |-> e.appName,
          image |-> Out(e.appName \o <<"-","r","e","p","o">>, "repositoryUrl") \o <<":","l","a","t","e","s","t">>,
          essential |-> TRUE,
          portMappings |-> <<[containerPort |-> e.containerPort, protocol |-> "tcp"]>>,
          environment |-> ContainerEnv(e) \o DbEnv(e, imp.dbEndpoint),
          secrets |-> IF Len(secrets) > 0 THEN Some(secrets) ELSE None,
          logGroup |-> imp.logGroupName,
          logRegion |-> imp.region,
          logStreamPrefix |-> e.appName,
          healthCheck |-> <<"c","u","r","l"," ","-","f"," ","h","t","t","p",":","/","/","l","o","c","a","l","h","o","s","t",":">> \o ToStr(e.containerPort)
                          \o <<"/","h","e","a","l","t","h"," ","|","|"," ","e","x","i","t"," ","1">> ]

TaskDefinitionDecl(e, imp, containers) ==
    Decl(e.appName \o <<"-","t","a","s","k">>, "aws.ecs.TaskDefinition",
         [family |-> e.appName,
          cpu |-> ToStr(e.cpu),
          memory |-> ToStr(e.memory),
          networkMode |-> "awsvpc",
          executionRoleArn |-> imp.taskExecutionRoleArn,
          taskRoleArn |-> imp.taskRoleArn,
          containerDefinitions |-> containers])

TemplateTaskDefinition ==
    /\ unit = "template" /\ pc = "taskDefinition"
    /\ Declare(<<TaskDefinitionDecl(env, imports, <<AppContainer(env, imports)>>)>>)
    /\ Goto("service")
    /\ UNCHANGED <<hashVars, unit, config, env, imports, stackRefs, called, exports,
                   snapshot, lastRule, prevDecls, prevConfig>>

\* Faulty variant of LaunchType: the launch type is set whatever useFargateSpot is.
LaunchTypeAlways(e) == Some("FARGATE")

\* launchType: useFargateSpot ? undefined : "FARGATE"
LaunchType(e) == IF e.useFargateSpot THEN None ELSE Some("FARGATE")

\* capacityProviderStrategies: useFargateSpot ? [FARGATE_SPOT, FARGATE] : undefined
CapacityProviderStrategies(e) ==
    IF e.useFargateSpot
    THEN Some(<< [capacityProvider |-> "FARGATE_SPOT", weight |-> 1, base |-> 0],
                 [capacityProvider |-> "FARGATE", weight |-> 0, base |-> 1] >>)
    ELSE None

TemplateServiceDecl(e, imp) ==
    Decl(e.appName \o <<"-","s","e","r","v","i","c","e">>, "aws.ecs.Service",
         [name |-> e.appName,
          cluster |-> imp.clusterArn,
          taskDefinition |-> Out(e.appName \o <<"-","t","a","s","k">>, "arn"),
          desiredCount |-> e.desiredCount,
          launchType |-> LaunchType(e),
          capacityProviderStrategies |-> CapacityProviderStrategies(e),
          subnets |-> imp.publicSubnetIds,
          securityGroups |-> <<Some(Out(e.appName \o <<"-","s","g">>, "id")),
                               imp.defaultSecurityGroupId>>,
          assignPublicIp |-> TRUE,
          loadBalancers |-> <<[targetGroupArn |-> Out(e.appName \o <<"-","t","g">>, "arn"),
                               containerName |-> e.appName,
                               containerPort |-> e.containerPort]>>])

TemplateService ==
    /\ unit = "template" /\ pc = "service"
    /\ Declare(<<TemplateServiceDecl(env, imports)>>)
    /\ Goto("scaling")
    /\ UNCHANGED <<hashVars, unit, config, env, imports, stackRefs, called, exports,
                   snapshot, lastRule, prevDecls, prevConfig>>

\* arn.split('/').pop()
RECURSIVE LastSegment(_, _)
LastSegment(s, ch) ==
    IF \E i \in 1..Len(s) : s[i] = ch THEN LastSegment(Tail(s), ch) ELSE s

\* `service/${clusterArn.apply(arn => arn.split('/').pop())}/${service.name}`
ScalingResourceId(e, imp) ==
    <<"s","e","r","v","i","c","e","/">> \o LastSegment(Get(imp.clusterArn), "/") \o <<"/">> \o e.appName

\* Faulty variant of Cron: the hour stands in the minutes field.
CronMinutes(hour) == <<"c","r","o","n","(">> \o ToStr(hour) \o <<" ","0"," ","*"," ","*"," ","?"," ","*",")">>

\* cron(0 ${hour} * * ? *)
Cron(hour) == <<"c","r","o","n","(","0"," ">> \o ToStr(hour) \o <<" ","*"," ","*"," ","?"," ","*",")">>

\* resourceId is kept as the text it resolves to; resourceIdFrom keeps the
\* outputs it is taken from: service.name in the target, scalingTarget.resourceId
\* in the two scheduled actions
ScalingDecls(e, imp) ==
    << Decl(e.appName \o <<"-","s","c","a","l","i","n","g","-","t","a","r","g","e","t">>, "aws.appautoscaling.Target",
            [maxCapacity |-> e.desiredCount, minCapacity |-> 0,
             resourceId |-> ScalingResourceId(e, imp),
             resourceIdFrom |-> <<Out(e.appName \o <<"-","s","e","r","v","i","c","e">>, "name")>>,
             scalableDimension |-> "ecs:service:DesiredCount",
             serviceNamespace |-> "ecs"]),
       Decl(e.appName \o <<"-","s","c","a","l","e","-","u","p">>, "aws.appautoscaling.ScheduledAction",
            [name |-> e.appName \o <<"-","s","c","a","l","e","-","u","p">>,
             serviceNamespace |-> "ecs",
             resourceId |-> ScalingResourceId(e, imp),
             resourceIdFrom |-> <<Out(e.appName \o <<"-","s","c","a","l","i","n","g","-","t","a","r","g","e","t">>, "resourceId")>>,
             scalableDimension |-> "ecs:service:DesiredCount",
             schedule |-> Cron(e.scaleUpHour),
             timezone |-> e.scheduleTimezone,
             minCapacity |-> e.desiredCount, maxCapacity |-> e.desiredCount]),
       Decl(e.appName \o <<"-","s","c","a","l","e","-","d","o","w","n">>, "aws.appautoscaling.ScheduledAction",
            [name |-> e.appName \o <<"-","s","c","a","l","e","-","d","o","w","n">>,
             serviceNamespace |-> "ecs",
             resourceId |-> ScalingResourceId(e, imp),
             resourceIdFrom |-> <<Out(e.appName \o <<"-","s","c","a","l","i","n","g","-","t","a","r","g","e","t">>, "resourceId")>>,
             scalableDimension |-> "ecs:service:DesiredCount",
             schedule |-> Cron(e.scaleDownHour),
             timezone |-> e.scheduleTimezone,
             minCapacity |-> 0, maxCapacity |-> 0]) >>

\* Faulty variant of ScalingGate: the scaling block runs unconditionally.
ScalingGateOpen(e) == TRUE

\* the gate of  if (enableScheduledScaling) { ... }
ScalingGate(e) == e.enableScheduledScaling

\* arn.split('/') throws a TypeError when the imported clusterArn is undefined:
\* the scaling target cannot be registered and the run fails
TemplateScheduledScaling ==
    /\ unit = "template" /\ pc = "scaling"
    /\ IF ScalingGate(env)
       THEN /\ called' = called \cup {"scheduledScaling"}
            /\ IF IsSome(imports.clusterArn)
               THEN Declare(ScalingDecls(env, imports)) /\ Goto("exports")
               ELSE UNCHANGED decls /\ Goto("failed")
       ELSE UNCHANGED <<called, decls>> /\ Goto("exports")
    /\ UNCHANGED <<hashVars, unit, config, env, imports, stackRefs, exports,
                   snapshot, lastRule, prevDecls, prevConfig>>

TemplateExportsOf(e, imp) ==
    [ appUrl           |-> Some(<<"h","t","t","p","s",":","/","/">> \o e.subdomain \o <<".">> \o Interp(imp.domainName)),
      albUrl           |-> Some(<<"h","t","t","p",":","/","/">> \o Interp(imp.albDnsName)),
      ecrRepositoryUrl |-> Some(Out(e.appName \o <<"-","r","e","p","o">>, "repositoryUrl")),
      serviceName      |-> Some(e.appName),
      serviceArn       |-> Some(Out(e.appName \o <<"-","s","e","r","v","i","c","e">>, "id")) ]

TemplateExports ==
    /\ unit = "template" /\ pc = "exports"
    /\ exports' = TemplateExportsOf(env, imports)
    /\ Goto("done")
    /\ UNCHANGED <<hashVars, unit, config, env, imports, stackRefs, called, decls,
                   snapshot, lastRule, prevDecls, prevConfig>>

(***************************************************************************)
(* The example app unit: apps/example-app (Cloudflare tunnel sidecar, no   *)
(* load-balancer wiring).                                                  *)
(***************************************************************************)
ExampleRequired == {"appName", "subdomain", "platformStack", "cloudflareTunnelToken"}

ExampleEnv ==
    [ appName               |-> Get(Require("appName")),
      subdomain             |-> Get(Require("subdomain")),
      platformStackName     |-> Get(Require("platformStack")),
      cpu                   |-> ParseInt(GetOr("cpu", <<"2","5","6">>)),
      memory                |-> ParseInt(GetOr("memory", <<"5","1","2">>)),
      desiredCount          |-> ParseInt(GetOr("desiredCount", <<"1">>)),
      containerPort         |-> ParseInt(GetOr("containerPort", <<"3","0","0","0">>)),
      useFargateSpot        |-> GetBooleanOr("useFargateSpot", TRUE),
      cloudflareTunnelToken |-> Get(Require("cloudflareTunnelToken")) ]

\* const config = new pulumi.Config(); ... config.requireSecret("cloudflareTunnelToken");
ExampleConfig ==
    /\ unit = "example" /\ pc = "config"
    /\ IF RequireFails(ExampleRequired)
       THEN Goto("failed") /\ UNCHANGED env
       ELSE Goto("imports") /\ env' = ExampleEnv
    /\ UNCHANGED <<hashVars, unit, config, imports, stackRefs, called, decls, exports,
                   snapshot, lastRule, prevDecls, prevConfig>>

ExampleImportNames ==
    {"vpcId", "publicSubnetIds", "defaultSecurityGroupId", "clusterArn",
     "taskExecutionRoleArn", "taskRoleArn", "logGroupName", "region", "dbEndpoint",
     "dbPasswordSecretArn"}

ExampleImports ==
    /\ unit = "example" /\ pc = "imports"
    /\ StackReference(env.platformStackName)
    /\ imports' = [n \in ExampleImportNames |-> GetOutput(n)]
    /\ Goto("ecr")
    /\ UNCHANGED <<hashVars, unit, config, env, called, decls, exports, snapshot, lastRule, prevDecls, prevConfig>>

ExampleEcr ==
    /\ unit = "example" /\ pc = "ecr"
    /\ Declare(EcrDecls(env.appName))
    /\ Goto("sg")
    /\ UNCHANGED <<hashVars, unit, config, env, imports, stackRefs, called, exports,
                   snapshot, lastRule, prevDecls, prevConfig>>

\* egress only - no inbound needed with tunnel
ExampleSgDecl(e, imp) ==
    Decl(e.appName \o <<"-","s","g">>, "aws.ec2.SecurityGroup",
         [vpcId |-> imp.vpcId, ingress |-> <<>>, egress |-> AllEgress])

ExampleSg ==
    /\ unit = "example" /\ pc = "sg"
    /\ Declare(<<ExampleSgDecl(env, imports)>>)
    /\ Goto("taskDefinition")
    /\ UNCHANGED <<hashVars, unit, config, env, imports, stackRefs, called, exports,
                   snapshot, lastRule, prevDecls, prevConfig>>

CloudflaredContainer(e, imp) ==
    [ name |-> <<"c","l","o","u","d","f","l","a","r","e","d">>,
      image |-> <<"c","l","o","u","d","f","l","a","r","e","/","c","l","o","u","d","f","l","a","r","e","d",":","l","a","t","e","s","t">>,
      essential |-> TRUE,
      command |-> <<<<"t","u","n","n","e","l">>, <<"-","-","n","o","-","a","u","t","o","u","p","d","a","t","e">>, <<"r","u","n">>, <<"-","-","t","o","k","e","n">>,
                    e.cloudflareTunnelToken>>,
      logGroup |-> imp.logGroupName,
      logRegion |-> imp.region,
      logStreamPrefix |-> <<"c","l","o","u","d","f","l","a","r","e","d">> ]

ExampleTaskDefinition ==
    /\ unit = "example" /\ pc = "taskDefinition"
    /\ Declare(<<TaskDefinitionDecl(env, imports,
                    <<AppContainer(env, imports), CloudflaredContainer(env, imports)>>)>>)
    /\ Goto("service")
    /\ UNCHANGED <<hashVars, unit, config, env, imports, stackRefs, called, exports,
                   snapshot, lastRule, prevDecls, prevConfig>>

ExampleServiceDecl(e, imp) ==
    Decl(e.appName \o <<"-","s","e","r","v","i","c","e">>, "aws.ecs.Service",
         [name |-> e.appName,
          cluster |-> imp.clusterArn,
          taskDefinition |-> Out(e.appName \o <<"-","t","a","s","k">>, "arn"),
          desiredCount |-> e.desiredCount,
          launchType |-> LaunchType(e),
          capacityProviderStrategies |-> CapacityProviderStrategies(e),
          subnets |-> imp.publicSubnetIds,
          securityGroups |-> <<Some(Out(e.appName \o <<"-","s","g">>, "id")),
                               imp.defaultSecurityGroupId>>,
          assignPublicIp |-> TRUE,
          loadBalancers |-> <<>>])

ExampleService ==
    /\ unit = "example" /\ pc = "service"
    /\ Declare(<<ExampleServiceDecl(env, imports)>>)
    /\ Goto("exports")
    /\ UNCHANGED <<hashVars, unit, config, env, imports, stackRefs, called, exports,
                   snapshot, lastRule, prevDecls, prevConfig>>

ExampleExportsOf(e) ==
    [ appUrl           |-> Some(<<"h","t","t","p","s",":","/","/">> \o e.subdomain \o <<".","c","w","n","e","l",".","c","o","m">>),
      ecrRepositoryUrl |-> Some(Out(e.appName \o <<"-","r","e","p","o">>, "repositoryUrl")),
      serviceName      |-> Some(e.appName),
      serviceArn       |-> Some(Out(e.appName \o <<"-","s","e","r","v","i","c","e">>, "id")) ]

ExampleExports ==
    /\ unit = "example" /\ pc = "exports"
    /\ exports' = ExampleExportsOf(env)
    /\ Goto("done")
    /\ UNCHANGED <<hashVars, unit, config, env, imports, stackRefs, called, decls,
                   snapshot, lastRule, prevDecls, prevConfig>>

(***************************************************************************)
(* The end of a run.                                                       *)
(***************************************************************************)
DeclsOfType(t) == {i \in 1..Len(decls) : decls[i].type = t}

\* the listener rule a finished template run leaves on the shared listener
DeployedRule ==
    LET r == decls[CHOOSE i \in DeclsOfType("aws.lb.ListenerRule") : TRUE]
    IN  [ subdomain |-> env.subdomain,
          listenerArn |-> r.inputs.listenerArn,
          priority |-> r.inputs.priority ]

Reset ==
    /\ unit' = "idle"
    /\ config' = NoRecord
    /\ pc' = "idle"
    /\ env' = NoRecord
    /\ imports' = NoRecord
    /\ stackRefs' = <<>>
    /\ called' = {}
    /\ decls' = <<>>
    /\ exports' = NoRecord

\* the program ran to its end: the engine applies the graph and saves the outputs
Deploy ==
    /\ pc = "done"
    /\ snapshot' = IF unit = "platform" THEN Some(exports) ELSE snapshot
    /\ lastRule' = IF unit = "template" THEN Some(DeployedRule) ELSE lastRule
    /\ prevDecls' = None
    /\ prevConfig' = NoRecord
    /\ Reset
    /\ UNCHANGED hashVars

\* pulumi up once more before anything else changes: the program runs again
\* from the top on the same configuration and the same platform snapshot
Rerun ==
    /\ pc = "done"
    /\ prevDecls = None
    /\ prevDecls' = Some(decls)
    /\ prevConfig' = config
    /\ pc' = "config"
    /\ env' = NoRecord
    /\ imports' = NoRecord
    /\ stackRefs' = <<>>
    /\ called' = {}
    /\ decls' = <<>>
    /\ exports' = NoRecord
    /\ UNCHANGED <<hashVars, unit, config, snapshot, lastRule>>

\* the key that switches the unit's optional subsystem, and the configurations
\* the unit is run on
GateKey(u) == IF u = "platform" THEN "enableSharedDatabase" ELSE "enableScheduledScaling"

ConfigsOf(u) == IF u = "platform" THEN PlatformConfigs ELSE TemplateConfigs

\* pulumi config set <gate> <value>; pulumi up: the program runs again from the
\* top with the optional subsystem's key set anew, nothing else changed
RerunToggled ==
    /\ pc = "done"
    /\ unit \in {"platform", "template"}
    /\ prevDecls = None
    /\ \E v \in {Some(<<"t","r","u","e">>), Some(<<"f","a","l","s","e">>)} :
          /\ v # config[GateKey(unit)]
          /\ [config EXCEPT ![GateKey(unit)] = v] \in ConfigsOf(unit)
          /\ config' = [config EXCEPT ![GateKey(unit)] = v]
    /\ prevDecls' = Some(decls)
    /\ prevConfig' = config
    /\ pc' = "config"
    /\ env' = NoRecord
    /\ imports' = NoRecord
    /\ stackRefs' = <<>>
    /\ called' = {}
    /\ decls' = <<>>
    /\ exports' = NoRecord
    /\ UNCHANGED <<hashVars, unit, snapshot, lastRule>>

\* the program threw: the run ends and nothing is applied
Abort ==
    /\ pc = "failed"
    /\ prevDecls' = None
    /\ prevConfig' = NoRecord
    /\ Reset
    /\ UNCHANGED <<hashVars, snapshot, lastRule>>

Init ==
    /\ hs = <<>> /\ hi = 0 /\ hash = 0 /\ hprio = None
    /\ Idle
    /\ snapshot = None
    /\ lastRule = None
    /\ prevDecls = None /\ prevConfig = NoRecord

Next ==
    \/ StartPlatform \/ StartTemplate \/ StartExample
    \/ PlatformConfig \/ PlatformVpc \/ PlatformDns \/ PlatformAlb \/ PlatformEcs
    \/ PlatformRds \/ PlatformLogGroup \/ PlatformExports
    \/ TemplateConfig \/ TemplateImports \/ TemplateEcr \/ TemplateSg
    \/ TemplateTargetGroup \/ TemplateListenerRule \/ TemplateTaskDefinition
    \/ TemplateService \/ TemplateScheduledScaling \/ TemplateExports
    \/ ExampleConfig \/ ExampleImports \/ ExampleEcr \/ ExampleSg
    \/ ExampleTaskDefinition \/ ExampleService \/ ExampleExports
    \/ Deploy \/ Rerun \/ RerunToggled \/ Abort

Spec == Init /\ [][Next]_vars

(***************************************************************************)
(* The priority callback run step by step on bounded inputs.               *)
(***************************************************************************)
MaxHashLen == 7

HashAlphabet == {"a", "z", "-", "0"}

LongInputs == {<<"c","h","e","c","k","o","u","t","-","a","p","i">>, <<"p","o","l","y","g","e","n","e","l","u","b","r","i","c","a","n","t","s">>, <<"G","y","d","Z","G","_">>}

HashInputs ==
    UNION {[1..n -> HashAlphabet] : n \in 0..MaxHashLen} \cup LongInputs

InitHash ==
    /\ hs \in HashInputs
    /\ hi = 0
    /\ hash = 0
    /\ hprio = None
    /\ Idle
    /\ snapshot = None
    /\ lastRule = None
    /\ prevDecls = None /\ prevConfig = NoRecord

\* for (let i = 0; i < s.length; i++) { ... }: one iteration
HashLoop ==
    /\ hprio = None
    /\ hi < Len(hs)
    /\ hash' = HashIter(hash, hs[hi + 1])
    /\ hi' = hi + 1
    /\ UNCHANGED <<hs, hprio, buildVars>>

\* return Math.abs(hash % 49000) + 1000;
HashReturn ==
    /\ hprio = None
    /\ hi >= Len(hs)
    /\ hprio' = Some(PriorityReturn(hash))
    /\ UNCHANGED <<hs, hi, hash, buildVars>>

NextHash == HashLoop \/ HashReturn

SpecHash == InitHash /\ [][NextHash]_vars

(***************************************************************************)
(* createAlb called on its own, on bounded arguments: with and without a   *)
(* certificate ARN.                                                        *)
(***************************************************************************)
AlbNames == {<<"p","o","r","t","f","o","l","i","o","-","d","e","v">>, <<"p","o","r","t","f","o","l","i","o","-","p","r","o","d">>, <<"p","o","r","t","f","o","l","i","o","-","t","e","s","t">>, <<"p">>}

AlbCertificates ==
    {None, Some(Out(<<"c","e","r","t","i","f","i","c","a","t","e",":","c","w","n","e","l",".","c","o","m">>, "arn")), Some(Out(<<"c","e","r","t","i","f","i","c","a","t","e",":","a",".","i","o">>, "arn"))}

AlbArguments ==
    { [name |-> n,
       inputs |-> [vpcId |-> VpcOutputs(v).vpcId,
                   publicSubnetIds |-> VpcOutputs(v).publicSubnetIds,
                   certificateArn |-> c]] :
        n \in AlbNames, v \in AlbNames, c \in AlbCertificates }

InitAlb ==
    /\ hs = <<>> /\ hi = 0 /\ hash = 0 /\ hprio = None
    /\ unit = "createAlb"
    /\ config = NoRecord
    /\ pc = "body"
    /\ env \in AlbArguments
    /\ imports = NoRecord
    /\ stackRefs = <<>>
    /\ called = {}
    /\ decls = <<>>
    /\ exports = NoRecord
    /\ snapshot = None
    /\ lastRule = None
    /\ prevDecls = None /\ prevConfig = NoRecord

\* the constructors of the function body, in order
AlbBody ==
    /\ unit = "createAlb" /\ pc = "body"
    /\ called' = called \cup {"createAlb"}
    /\ Declare(AlbDecls(env.name, env.inputs))
    /\ Goto("return")
    /\ UNCHANGED <<hashVars, unit, config, env, imports, stackRefs, exports,
                   snapshot, lastRule, prevDecls, prevConfig>>

\* return { ... }
AlbReturn ==
    /\ unit = "createAlb" /\ pc = "return"
    /\ exports' = AlbOutputs(env.name, env.inputs)
    /\ Goto("returned")
    /\ UNCHANGED <<hashVars, unit, config, env, imports, stackRefs, called, decls,
                   snapshot, lastRule, prevDecls, prevConfig>>

NextAlb == AlbBody \/ AlbReturn

SpecAlb == InitAlb /\ [][NextAlb]_vars

(***************************************************************************)
(* Properties.  Helpers first: what a property reads off the state.        *)
(***************************************************************************)
AppUnit == unit \in {"template", "example"}

DeclsOf(types) == {decls[i] : i \in {j \in 1..Len(decls) : decls[j].type \in types}}

TaskDefs == DeclsOf({"aws.ecs.TaskDefinition"})

Services == DeclsOf({"aws.ecs.Service"})

ListenerRules == DeclsOf({"aws.lb.ListenerRule"})

EnvNames(c) == {c.environment[i].name : i \in 1..Len(c.environment)}

EnvValue(c, n) == c.environment[CHOOSE i \in 1..Len(c.environment) :
                                    c.environment[i].name = n].value

SecretsOf(c) == IF c.secrets = None THEN {} ELSE Range(Get(c.secrets))

DbEnvNames == {"DB_HOST", "DB_PORT", "DB_NAME", "DB_USER"}

SnapshotWithoutDb ==
    /\ IsSome(snapshot)
    /\ Get(snapshot).dbEndpoint = None
    /\ Get(snapshot).dbPasswordSecretArn = None

SnapshotWithDb ==
    /\ IsSome(snapshot)
    /\ Get(snapshot).dbEndpoint # None
    /\ Get(snapshot).dbPasswordSecretArn # None

(***************************************************************************)
(* The reference the priority is compared with: h := h*31 + c wrapped to   *)
(* 32 bits two's complement, then abs(h) % (50000 - 1000) + 1000 with abs  *)
(* exact.  The product is formed on 16-bit halves so that no intermediate  *)
(* leaves the 32-bit integers TLC computes with.                           *)
(***************************************************************************)
RefStep(h, c) ==
    LET lo  == (h % 65536) * 31 + c
        top == (((h - (h % 65536)) \div 65536) * 31 + (lo \div 65536)) % 65536
    IN  (IF top >= 32768 THEN top - 65536 ELSE top) * 65536 + (lo % 65536)

RECURSIVE RefHash(_, _)
RefHash(s, n) ==
    IF n = 0 THEN 0
    ELSE CHOOSE r \in {RefStep(x, CharCode(s[n])) : x \in {RefHash(s, n - 1)}} : TRUE

\* abs(h) % m, where abs(-2^31) = 2^31
RefAbsMod(h, m) == IF h >= 0 THEN h % m ELSE (((-(h + 1)) % m) + 1) % m

RefPriority(s) == RefAbsMod(RefHash(s, Len(s)), 50000 - 1000) + 1000

\* C1: for every subdomain string, the empty one included, the priority the
\* callback returns is an integer p with 1000 <= p < 50000.
C1_PriorityInRange ==
    hprio # None => Get(hprio) \in Int /\ 1000 <= Get(hprio) /\ Get(hprio) < 50000

\* the callback has returned on the empty string
C1_Witness == hs = <<>> /\ hprio = Some(1000)

\* C2: the listener-rule priority is a function of the subdomain alone: a build
\* whose subdomain equals that of the previously deployed app gets the same
\* priority, whatever the other configuration keys and the platform outputs are.
C2_PriorityOfSubdomainOnly ==
    \A r \in ListenerRules :
        (lastRule # None /\ Get(lastRule).subdomain = env.subdomain)
            => r.inputs.priority = Get(lastRule).priority

\* the same subdomain built a second time for another app name, on platform
\* outputs that differ from those the first build saw
C2_Witness ==
    /\ lastRule # None
    /\ \E r \in ListenerRules :
          /\ Get(lastRule).subdomain = env.subdomain
          /\ Get(lastRule).listenerArn # r.inputs.listenerArn
          /\ config.appName = Some(<<"a","p","i">>)
          /\ config.subdomain = Some(<<"d","e","v">>)

\* C3: at every step of the loop the code's hash equals the reference fold
\* h := h*31 + charCode wrapped to 32 bits, and the value returned equals
\* abs(h) % (50000 - 1000) + 1000 with abs exact; the one-shot form of the
\* callback returns the same value.
C3_MatchesReference ==
    /\ hash = RefHash(hs, hi)
    /\ hprio # None => /\ Get(hprio) = RefPriority(hs)
                       /\ priority(hs) = RefPriority(hs)

\* the callback has returned on a string whose hash is -2^31
C3_Witness == hprio = Some(10648) /\ hash = -2147483647 - 1

\* C4: in the app template, with enableScheduledScaling false or not configured
\* no scheduled-scaling declaration exists and the block never ran; with it true
\* the finished graph has the scaling target and both scheduled actions.
C4_ScheduledScalingGate ==
    unit = "template" =>
        /\ config.enableScheduledScaling \in {None, Some(<<"f","a","l","s","e">>)} =>
              /\ DeclsOf({"aws.appautoscaling.Target",
                          "aws.appautoscaling.ScheduledAction"}) = {}
              /\ "scheduledScaling" \notin called
        /\ (config.enableScheduledScaling = Some(<<"t","r","u","e">>) /\ pc \in {"exports", "done"}) =>
              LET app == Get(config.appName)
              IN  /\ {d.name : d \in DeclsOf({"aws.appautoscaling.Target"})}
                        = {app \o <<"-","s","c","a","l","i","n","g","-","t","a","r","g","e","t">>}
                  /\ {d.name : d \in DeclsOf({"aws.appautoscaling.ScheduledAction"})}
                        = {app \o <<"-","s","c","a","l","e","-","u","p">>, app \o <<"-","s","c","a","l","e","-","d","o","w","n">>}

\* a template build ran to its end with the gate set to false
C4_Witness ==
    /\ unit = "template" /\ pc = "done"
    /\ config.enableScheduledScaling = Some(<<"f","a","l","s","e">>)
    /\ Services # {}

\* C5: in the platform, with enableSharedDatabase false createRds is never called,
\* no database declaration exists and the six database outputs are absent; with
\* it true the six outputs are present.
C5_SharedDatabaseGate ==
    unit = "platform" =>
        /\ config.enableSharedDatabase = Some(<<"f","a","l","s","e">>) =>
              /\ "createRds" \notin called
              /\ DeclsOf({"aws.rds.SubnetGroup", "random.RandomPassword",
                          "aws.secretsmanager.Secret", "aws.secretsmanager.SecretVersion",
                          "aws.rds.Instance"}) = {}
              /\ \A g \in DeclsOf({"aws.ec2.SecurityGroup"}) :
                    \A i \in 1..Len(g.inputs.ingress) : g.inputs.ingress[i].fromPort # 5432
              /\ pc = "done" =>
                    \A o \in {"dbEndpoint", "dbPort", "dbName", "dbUsername",
                              "dbPasswordSecretArn", "dbSecurityGroupId"} : exports[o] = None
        /\ (config.enableSharedDatabase = Some(<<"t","r","u","e">>) /\ pc = "done") =>
              \A o \in {"dbEndpoint", "dbPort", "dbName", "dbUsername",
                        "dbPasswordSecretArn", "dbSecurityGroupId"} : exports[o] # None

\* a platform build ran to its end with the database switched off
C5_Witness ==
    /\ unit = "platform" /\ pc = "done"
    /\ config.enableSharedDatabase = Some(<<"f","a","l","s","e">>)
    /\ Len(decls) > 0

\* C6: an app build against a platform snapshot without the database fails only
\* on a missing required key, resolves dbEndpoint and dbPasswordSecretArn to
\* undefined, and its containers carry no DB_HOST, DB_PORT, DB_NAME or DB_USER
\* entry and no DB_PASSWORD secret.
C6_BuildsWithoutDatabase ==
    (AppUnit /\ SnapshotWithoutDb) =>
        /\ pc = "failed" =>
              \E k \in DOMAIN config \cap {"appName", "subdomain", "platformStack",
                                           "cloudflareTunnelToken"} : config[k] = None
        /\ imports # NoRecord =>
              imports.dbEndpoint = None /\ imports.dbPasswordSecretArn = None
        /\ \A t \in TaskDefs :
              \A i \in 1..Len(t.inputs.containerDefinitions) :
                 LET c == t.inputs.containerDefinitions[i]
                 IN  /\ "environment" \in DOMAIN c => EnvNames(c) \cap DbEnvNames = {}
                     /\ "secrets" \in DOMAIN c =>
                           \A s \in SecretsOf(c) : s.name # "DB_PASSWORD"

\* the example app ran to its end against a platform without the database
C6_Witness ==
    /\ unit = "example" /\ pc = "done"
    /\ SnapshotWithoutDb
    /\ TaskDefs # {}

\* C7: an app build against a platform snapshot with the database gives the app
\* container DB_HOST, DB_PORT = 5432, DB_NAME (the app name with every hyphen
\* turned into an underscore), DB_USER, and a DB_PASSWORD secret taken from the
\* platform's dbPasswordSecretArn.
C7_DatabaseSettings ==
    (AppUnit /\ SnapshotWithDb) =>
        \A t \in TaskDefs :
            LET c == t.inputs.containerDefinitions[1]
                a == Get(config.appName)
            IN  /\ c.name = a
                /\ DbEnvNames \subseteq EnvNames(c)
                /\ EnvValue(c, "DB_PORT") = <<"5","4","3","2">>
                /\ Len(EnvValue(c, "DB_NAME")) = Len(a)
                /\ \A i \in 1..Len(a) :
                      EnvValue(c, "DB_NAME")[i] = IF a[i] = "-" THEN "_" ELSE a[i]
                /\ [name |-> "DB_PASSWORD",
                    valueFrom |-> Get(Get(snapshot).dbPasswordSecretArn)] \in SecretsOf(c)

\* a template build of my-app ran to its end against a platform with the database
C7_Witness ==
    /\ unit = "template" /\ pc = "done"
    /\ SnapshotWithDb
    /\ config.appName = Some(<<"m","y","-","a","p","p">>)
    /\ TaskDefs # {}

\* C8: with useFargateSpot true the service has exactly the two strategies
\* FARGATE_SPOT (weight 1, base 0) and FARGATE (weight 0, base 1) and no launch
\* type; with it false, launch type FARGATE and no strategy; in every build
\* exactly one of the two fields is set.
C8_LaunchTypeOrStrategies ==
    \A s \in Services :
        LET l  == s.inputs.launchType
            st == s.inputs.capacityProviderStrategies
        IN  /\ config.useFargateSpot = Some(<<"t","r","u","e">>) =>
                  /\ l = None
                  /\ st = Some(<< [capacityProvider |-> "FARGATE_SPOT", weight |-> 1,
                                   base |-> 0],
                                  [capacityProvider |-> "FARGATE", weight |-> 0,
                                   base |-> 1] >>)
            /\ config.useFargateSpot = Some(<<"f","a","l","s","e">>) =>
                  l = Some("FARGATE") /\ st = None
            /\ (l = None) # (st = None)

\* the example app declared its service with useFargateSpot set to false
C8_Witness ==
    /\ unit = "example"
    /\ config.useFargateSpot = Some(<<"f","a","l","s","e">>)
    /\ Services # {}

MissingRequiredKey ==
    \/ AppUnit /\ \E k \in {"appName", "subdomain", "platformStack"} : config[k] = None
    \/ unit = "platform" /\ \E k \in {"environment", "domainName"} : config[k] = None

\* C9: a build whose configuration lacks a required key (appName, subdomain or
\* platformStack in an app; environment or domainName in the platform) never
\* gets past reading the configuration: it has no declaration, no stack
\* reference, no builder call and no output, when it fails and before.
C9_FailsBeforeDeclaring ==
    MissingRequiredKey =>
        /\ pc \in {"config", "failed"}
        /\ decls = <<>>
        /\ stackRefs = <<>>
        /\ called = {}
        /\ exports = NoRecord

\* a template build failed for the platformStack key alone
C9_Witness ==
    /\ unit = "template" /\ pc = "failed"
    /\ config.appName # None /\ config.subdomain # None
    /\ config.platformStack = None

\* C10: an app configuration that sets appName, subdomain and platformStack and
\* no other key builds without a configuration error.
C10_ThreeKeysSuffice ==
    (/\ AppUnit
     /\ \A k \in DOMAIN config :
           (config[k] # None) <=> (k \in {"appName", "subdomain", "platformStack"}))
        => pc # "failed"

ScheduledActions == DeclsOf({"aws.appautoscaling.ScheduledAction"})

ScalingTargets == DeclsOf({"aws.appautoscaling.Target"})

Unset(k) == k \in DOMAIN config /\ config[k] = None

\* C11: an app build uses the documented default of every optional numeric or
\* boolean key its configuration leaves out: cpu 256, memory 512, desiredCount 1,
\* containerPort 3000, useFargateSpot true, enableScheduledScaling false,
\* scaleUpHour 6, scaleDownHour 22; the defaults are read off the program's
\* constants and off the declarations that carry them.
C11_Defaults ==
    (AppUnit /\ env # NoRecord) =>
        /\ Unset("cpu") =>
              env.cpu = 256 /\ \A t \in TaskDefs : t.inputs.cpu = <<"2","5","6">>
        /\ Unset("memory") =>
              env.memory = 512 /\ \A t \in TaskDefs : t.inputs.memory = <<"5","1","2">>
        /\ Unset("desiredCount") =>
              env.desiredCount = 1 /\ \A s \in Services : s.inputs.desiredCount = 1
        /\ Unset("containerPort") =>
              /\ env.containerPort = 3000
              /\ \A t \in TaskDefs :
                    t.inputs.containerDefinitions[1].portMappings[1].containerPort = 3000
        /\ Unset("useFargateSpot") =>
              /\ env.useFargateSpot = TRUE
              /\ \A s \in Services : s.inputs.capacityProviderStrategies # None
        /\ Unset("enableScheduledScaling") =>
              /\ env.enableScheduledScaling = FALSE
              /\ ScheduledActions = {} /\ ScalingTargets = {}
        /\ Unset("scaleUpHour") =>
              /\ env.scaleUpHour = 6
              /\ \A a \in ScheduledActions :
                    a.name = env.appName \o <<"-","s","c","a","l","e","-","u","p">>
                        => a.inputs.schedule = <<"c","r","o","n","(","0"," ","6"," ","*"," ","*"," ","?"," ","*",")">>
        /\ Unset("scaleDownHour") =>
              /\ env.scaleDownHour = 22
              /\ \A a \in ScheduledActions :
                    a.name = env.appName \o <<"-","s","c","a","l","e","-","d","o","w","n">>
                        => a.inputs.schedule = <<"c","r","o","n","(","0"," ","2","2"," ","*"," ","*"," ","?"," ","*",")">>

\* a template build with scaling switched on and every other optional key left
\* out has run to its end
C11_Witness ==
    /\ unit = "template" /\ pc = "done"
    /\ config.enableScheduledScaling = Some(<<"t","r","u","e">>)
    /\ \A k \in TemplateOptionalKeys \ {"enableScheduledScaling"} : config[k] = None
    /\ Cardinality(ScheduledActions) = 2

\* the IANA names of the zone whose offset from UTC is always zero
UtcEquivalent == {<<"U","T","C">>, <<"E","t","c","/","U","T","C">>, <<"E","t","c","/","U","C","T">>, <<"E","t","c","/","U","n","i","v","e","r","s","a","l">>, <<"E","t","c","/","Z","u","l","u">>,
                  <<"G","M","T">>, <<"E","t","c","/","G","M","T">>, <<"E","t","c","/","G","r","e","e","n","w","i","c","h">>}

\* C12: in a template build with scheduled scaling enabled and scheduleTimezone
\* not configured, the scale-up and the scale-down action are both declared with
\* a timezone equivalent to UTC.
C12_DefaultTimezoneIsUtc ==
    (/\ unit = "template"
     /\ config.enableScheduledScaling = Some(<<"t","r","u","e">>)
     /\ config.scheduleTimezone = None)
        => \A a \in ScheduledActions : a.inputs.timezone \in UtcEquivalent

StableNames ==
    {"vpcId", "publicSubnetIds", "privateSubnetIds", "defaultSecurityGroupId", "albArn",
     "albDnsName", "albZoneId", "httpListenerArn", "httpsListenerArn",
     "albSecurityGroupId", "hostedZoneId", "certificateArn", "clusterArn", "clusterName",
     "taskExecutionRoleArn", "taskRoleArn", "logGroupName", "region"}

\* C13: a platform build that reaches its end exports every stable name of the
\* cross-stack contract with a value, whatever the database flag is, and no name
\* is exported by two statements; the deployed snapshot carries the same names.
C13_StableOutputs ==
    /\ (unit = "platform" /\ pc = "done") =>
          /\ \A n \in StableNames : n \in DOMAIN exports /\ exports[n] # None
          /\ LET st == PlatformExportStatements(env)
             IN  \A i, j \in DOMAIN st : st[i].name = st[j].name => i = j
    /\ IsSome(snapshot) =>
          \A n \in StableNames : n \in DOMAIN Get(snapshot) /\ Get(snapshot)[n] # None

\* a platform build with the database switched off has run to its end, over a
\* snapshot of an earlier deployment that had the database
C13_Witness ==
    /\ unit = "platform" /\ pc = "done"
    /\ config.enableSharedDatabase = Some(<<"f","a","l","s","e">>)
    /\ SnapshotWithDb

\* C14: the appUrl output of an app build is https://{subdomain}.{domainName},
\* subdomain being the configured subdomain and domainName the domain name the
\* referenced platform exports.
C14_AppUrl ==
    (AppUnit /\ pc = "done" /\ IsSome(snapshot)) =>
        exports.appUrl = Some(<<"h","t","t","p","s",":","/","/">> \o Get(config.subdomain) \o <<".">>
                              \o Get(Get(snapshot).domainName))

\* C15: stack references go one way.  An app build holds no stack reference
\* until its configuration is read, exactly one once its imports are resolved and
\* never more than one, the one named by platformStack, and every value it
\* imports is the platform stack's output of that name; a platform build holds
\* no stack reference and imports nothing.
C15_OneDirectionalReferences ==
    /\ unit = "platform" => stackRefs = <<>> /\ imports = NoRecord
    /\ (AppUnit /\ pc = "config") => stackRefs = <<>> /\ imports = NoRecord
    /\ (AppUnit /\ pc \notin {"config", "failed", "imports"}) => Len(stackRefs) = 1
    /\ AppUnit =>
          /\ Len(stackRefs) <= 1
          /\ \A i \in 1..Len(stackRefs) : stackRefs[i] = Get(config.platformStack)
          /\ \A n \in DOMAIN imports :
                imports[n] = IF IsSome(snapshot) /\ n \in DOMAIN Get(snapshot)
                             THEN Get(snapshot)[n] ELSE None

\* the example app has declared its service, after a platform build took place
C15_Witness ==
    /\ unit = "example" /\ pc = "exports"
    /\ Len(stackRefs) = 1
    /\ imports.vpcId # None

ResolvedValuesUsed(d) ==
    CASE d.type = "aws.ec2.SecurityGroup" -> {d.inputs.vpcId}
      [] d.type = "aws.ecs.TaskDefinition" ->
            {d.inputs.executionRoleArn, d.inputs.taskRoleArn}
            \cup UNION {{c.logGroup, c.logRegion} : c \in Range(d.inputs.containerDefinitions)}
      [] d.type = "aws.ecs.Service" ->
            {d.inputs.cluster, d.inputs.subnets, d.inputs.securityGroups[2]}
      [] OTHER -> {}

\* C17: an app build checks every value it resolved from the stack reference
\* (vpcId, publicSubnetIds, defaultSecurityGroupId, clusterArn,
\* taskExecutionRoleArn, taskRoleArn, logGroupName, region, dbEndpoint,
\* dbPasswordSecretArn) for presence before using it and takes another branch
\* when it is absent: no declaration is given an absent resolved value.
C17_PresenceChecked ==
    AppUnit => \A d \in Range(decls) : None \notin ResolvedValuesUsed(d)


\* the rule deployed last sits on the listener this build imports, at the
\* priority this build's subdomain hashes to
PriorityTaken(r) ==
    /\ lastRule # None
    /\ r.inputs.listenerArn # None
    /\ Get(lastRule).listenerArn = r.inputs.listenerArn
    /\ Get(lastRule).priority = RefPriority(env.subdomain)

\* C18: the priority derivation has no collision-avoidance step: when the rule
\* deployed last holds, on the same shared HTTPS listener, the priority this
\* build's subdomain hashes to, the build declares its rule at that same priority
\* and does not fail, whichever subdomain the deployed rule belongs to.
C18_NoCollisionAvoidance ==
    unit = "template" =>
        \A r \in ListenerRules :
            PriorityTaken(r) =>
                /\ r.inputs.priority = Get(lastRule).priority
                /\ pc # "failed"

\* two distinct subdomains, the second built to its end with its rule on the
\* listener and at the priority of the first
C18_Witness ==
    /\ unit = "template" /\ pc = "done"
    /\ \E r \in ListenerRules :
          /\ PriorityTaken(r)
          /\ Get(lastRule).subdomain # env.subdomain
          /\ r.inputs.priority = Get(lastRule).priority

AppSgs == {d \in DeclsOf({"aws.ec2.SecurityGroup"}) : d.name = env.appName \o <<"-","s","g">>}

ConfiguredPort == IF config.containerPort = None THEN 3000 ELSE 8080

\* the one inbound rule: TCP, the container port only, from the security group
\* the platform exports as the load balancer's
FromAlbOnly(g) ==
    /\ Len(g.inputs.ingress) = 1
    /\ LET r == g.inputs.ingress[1]
       IN  /\ r.protocol = "tcp"
           /\ r.fromPort = ConfiguredPort /\ r.toPort = ConfiguredPort
           /\ r.cidrBlocks = <<>> /\ r.self = FALSE
           /\ Len(r.securityGroups) = 1
           /\ IsSome(snapshot) =>
                 r.securityGroups[1] = Some(Out(<<"p","o","r","t","f","o","l","i","o","-","d","e","v","-","a","l","b","-","s","g">>, "id"))

LoadBalancers == DeclsOf({"aws.lb.LoadBalancer"})

HttpListeners == {l \in DeclsOf({"aws.lb.Listener"}) : l.inputs.port = 80}

\* the load balancer is declared with internal: false
InternetFacing == \A b \in LoadBalancers : b.inputs.internal = FALSE

\* the default action of the port-80 listener is a redirect
HttpRedirects ==
    \A l \in HttpListeners :
        /\ Len(l.inputs.defaultActions) = 1
        /\ l.inputs.defaultActions[1].type = "redirect"

\* C20: the platform load balancer is internet-facing and the default action of
\* its HTTP (port 80) listener redirects requests to HTTPS.
C20_InternetFacingRedirect ==
    unit = "platform" => InternetFacing /\ HttpRedirects

TailscaleNames ==
    {"tailscaleInstanceId", "tailscalePrivateIp", "tailscalePublicIp",
     "tailscaleSecurityGroupId", "tailscaleAuthKeySecretArn"}

\* C21: a platform build that reaches its end has called the Tailscale subnet
\* router builder and exports tailscaleInstanceId, tailscalePrivateIp,
\* tailscalePublicIp, tailscaleSecurityGroupId and tailscaleAuthKeySecretArn,
\* each with a value.
C21_TailscaleOutputs ==
    (unit = "platform" /\ pc = "done") =>
        /\ "createTailscaleSubnetRouter" \in called
        /\ \A n \in TailscaleNames : n \in DOMAIN exports /\ exports[n] # None

\* C22: a configured value that equals zero or false is used as given: with
\* desiredCount set to 0 the service is declared with desired count 0, and with
\* useFargateSpot set to false it is declared with the on-demand launch type
\* FARGATE and no capacity provider strategy.
C22_ZeroAndFalseKept ==
    AppUnit =>
        \A s \in Services :
            /\ config.desiredCount = Some(<<"0">>) => s.inputs.desiredCount = 0
            /\ config.useFargateSpot = Some(<<"f","a","l","s","e">>) =>
                  /\ s.inputs.launchType = Some("FARGATE")
                  /\ s.inputs.capacityProviderStrategies = None

\* the example app declared its service with desiredCount set to 0
C22_Witness ==
    /\ unit = "example"
    /\ config.desiredCount = Some(<<"0">>)
    /\ \E s \in Services : s.inputs.desiredCount = 0

\* the optional subsystem's own declarations: the shared database's in the
\* platform, the scheduled scaling's in an app
OwnDecl(d) ==
    IF unit = "platform"
    THEN \/ d.type \in {"aws.rds.SubnetGroup", "random.RandomPassword",
                        "aws.secretsmanager.Secret", "aws.secretsmanager.SecretVersion",
                        "aws.rds.Instance"}
         \/ /\ d.type = "aws.ec2.SecurityGroup"
            /\ \E i \in 1..Len(d.inputs.ingress) : d.inputs.ingress[i].fromPort = 5432
    ELSE d.type \in {"aws.appautoscaling.Target", "aws.appautoscaling.ScheduledAction"}

WithoutOwn(ds) == SelectSeq(ds, LAMBDA d : ~OwnDecl(d))

\* the gate as the program reads it from configuration c
GateOn(c) ==
    IF unit = "platform"
    THEN c.enableSharedDatabase # Some(<<"f","a","l","s","e">>)
    ELSE c.enableScheduledScaling = Some(<<"t","r","u","e">>)

\* C23: when a finished build follows a finished build of the same unit whose
\* configuration differs in the subsystem's gate alone, the declaration list of
\* the build with the gate false equals the list of the build with the gate true
\* with the subsystem's own declarations removed, the rest unchanged in content
\* and order; the list with the gate true does hold own declarations.
C23_SubsystemFrame ==
    (prevDecls # None /\ prevConfig # config /\ pc = "done") =>
        LET on  == IF GateOn(config) THEN decls ELSE Get(prevDecls)
            off == IF GateOn(config) THEN Get(prevDecls) ELSE decls
        IN  IF GateOn(config) = GateOn(prevConfig)
            THEN decls = Get(prevDecls)
            ELSE /\ off = WithoutOwn(on)
                 /\ Len(on) > Len(off)

\* a template build with scheduled scaling switched on has followed the build
\* of the same configuration without it
C23_Witness ==
    /\ unit = "template" /\ pc = "done"
    /\ prevDecls # None
    /\ GateOn(config) /\ ~GateOn(prevConfig)
    /\ Len(decls) = Len(Get(prevDecls)) + 3

\* C24: in every build, of the platform or of an app, no two declarations of
\* the same resource type carry the same logical name, the indexed subnets and
\* route-table associations of the VPC loop included.
C24_DistinctNames ==
    \A i, j \in 1..Len(decls) :
        (i # j /\ decls[i].type = decls[j].type) => decls[i].name # decls[j].name

\* a platform build with the database has run to its end: four subnets, two
\* route-table associations and three security groups are declared
C24_Witness ==
    /\ unit = "platform" /\ pc = "done"
    /\ Cardinality(DeclsOf({"aws.ec2.Subnet"})) = 4
    /\ Cardinality(DeclsOf({"aws.ec2.RouteTableAssociation"})) = 2
    /\ Cardinality(DeclsOf({"aws.ec2.SecurityGroup"})) = 3

\* the value of an import as a set: empty when it is undefined
Opt(o) == IF o = None THEN {} ELSE {Get(o)}

SgSources(g) ==
    UNION {Range(g.inputs.ingress[i].securityGroups) : i \in 1..Len(g.inputs.ingress)}

\* the outputs of other resources among the inputs of a platform declaration
PlatformRefs(d) ==
    LET x == d.inputs
    IN  CASE d.type \in {"aws.ec2.InternetGateway", "aws.ec2.Subnet"} -> {x.vpcId}
          [] d.type = "aws.ec2.RouteTable" -> {x.vpcId, x.gatewayId}
          [] d.type = "aws.ec2.RouteTableAssociation" -> {x.subnetId, x.routeTableId}
          [] d.type = "aws.ec2.SecurityGroup" -> {x.vpcId} \cup SgSources(d)
          [] d.type = "aws.lb.LoadBalancer" -> Range(x.securityGroups) \cup Range(x.subnets)
          [] d.type = "aws.lb.Listener" -> {x.loadBalancerArn}
          [] d.type = "aws.ecs.ClusterCapacityProviders" -> {x.clusterName}
          [] d.type \in {"aws.iam.RolePolicyAttachment", "aws.iam.RolePolicy"} -> {x.role}
          [] d.type = "aws.rds.SubnetGroup" -> Range(x.subnetIds)
          [] d.type = "aws.secretsmanager.SecretVersion" -> {x.secretId, x.secretString}
          [] d.type = "aws.rds.Instance" ->
                {x.password, x.dbSubnetGroupName} \cup Range(x.vpcSecurityGroupIds)
          [] OTHER -> {}

ContainerRefs(c) ==
    Opt(c.logGroup) \cup Opt(c.logRegion)
    \cup (IF "secrets" \in DOMAIN c THEN {s.valueFrom : s \in SecretsOf(c)} ELSE {})

\* the outputs of other resources, of this build or of the platform, among the
\* inputs of an app declaration
AppRefs(d) ==
    LET x == d.inputs
    IN  CASE d.type = "aws.ecr.LifecyclePolicy" -> {x.repository}
          [] d.type = "aws.ec2.SecurityGroup" ->
                Opt(x.vpcId) \cup UNION {Opt(s) : s \in SgSources(d)}
          [] d.type = "aws.lb.TargetGroup" -> Opt(x.vpcId)
          [] d.type = "aws.lb.ListenerRule" ->
                Opt(x.listenerArn) \cup {x.actions[i].targetGroupArn : i \in 1..Len(x.actions)}
          [] d.type = "aws.ecs.TaskDefinition" ->
                Opt(x.executionRoleArn) \cup Opt(x.taskRoleArn)
                \cup {TakeUntil(x.containerDefinitions[1].image, ":")}
                \cup UNION {ContainerRefs(c) : c \in Range(x.containerDefinitions)}
          [] d.type = "aws.ecs.Service" ->
                Opt(x.cluster) \cup {x.taskDefinition}
                \cup UNION {Range(s) : s \in Opt(x.subnets)}
                \cup UNION {Opt(s) : s \in Range(x.securityGroups)}
                \cup {x.loadBalancers[i].targetGroupArn : i \in 1..Len(x.loadBalancers)}
          [] d.type \in {"aws.appautoscaling.Target", "aws.appautoscaling.ScheduledAction"} ->
                Range(x.resourceIdFrom)
          [] OTHER -> {}

Refs(d) == IF unit = "platform" THEN PlatformRefs(d) ELSE AppRefs(d)

\* the values the build resolved through its stack reference
ImportValues ==
    UNION {Opt(imports[n]) : n \in DOMAIN imports \ {"publicSubnetIds"}}
    \cup (IF "publicSubnetIds" \in DOMAIN imports
          THEN UNION {Range(s) : s \in Opt(imports.publicSubnetIds)} ELSE {})

\* the logical name of the resource an output value belongs to
Producer(v) == TakeUntil(v, "#")

\* C25: in every build, every output of another resource among the inputs of a
\* declaration is an output of a declaration constructed earlier in the same
\* build, or a value resolved through the stack reference: the construction
\* order is a topological order of the dependency edges.
C25_ReferencesEarlier ==
    \A i \in 1..Len(decls) :
        \A v \in Refs(decls[i]) :
            \E p \in {Producer(v)} :
                \/ \E j \in 1..(i - 1) : decls[j].name = p
                \/ AppUnit /\ v \in ImportValues

\* a template build with scheduled scaling has run to its end on a deployed
\* platform: its last declaration refers to the scaling target before it
C25_Witness ==
    /\ unit = "template" /\ pc = "done" /\ IsSome(snapshot)
    /\ ScheduledActions # {}
    /\ \E v \in Refs(decls[Len(decls)]) : Producer(v) = decls[Len(decls) - 2].name

DbImportNames == {"dbEndpoint", "dbPasswordSecretArn"}

\* C26: in an app build against a deployed platform, every name the app reads
\* through its stack reference is a name of the platform's outputs, and a read
\* resolves to undefined only for dbEndpoint and dbPasswordSecretArn and only
\* when the platform was deployed without the database; the template's reads
\* include domainName, clusterName, httpsListenerArn, albSecurityGroupId and
\* albDnsName.
C26_ImportsAreExports ==
    (AppUnit /\ IsSome(snapshot) /\ imports # NoRecord) =>
        /\ \A n \in DOMAIN imports :
              /\ n \in DOMAIN Get(snapshot)
              /\ imports[n] = None => n \in DbImportNames /\ SnapshotWithoutDb
        /\ unit = "template" =>
              {"domainName", "clusterName", "httpsListenerArn", "albSecurityGroupId",
               "albDnsName"} \subseteq DOMAIN imports
        /\ SnapshotWithDb => \A n \in DbImportNames : imports[n] # None

\* a template build has resolved its imports against a platform deployed
\* without the database
C26_Witness ==
    /\ unit = "template" /\ SnapshotWithoutDb
    /\ imports # NoRecord
    /\ imports.albDnsName # None /\ imports.domainName # None
    /\ imports.dbEndpoint = None

\* the configured container port as text
PortText == IF config.containerPort = None THEN <<"3","0","0","0">> ELSE Get(config.containerPort)

\* C27: within one app build every place that names the workload port carries
\* the configured containerPort (3000 when not configured): the security-group
\* ingress range, the target-group port, the container port mapping, the PORT
\* environment entry, the container health-check URL and the service's
\* load-balancer mapping.
C27_OnePort ==
    AppUnit =>
        /\ \A g \in AppSgs : \A i \in 1..Len(g.inputs.ingress) :
              /\ g.inputs.ingress[i].fromPort = ConfiguredPort
              /\ g.inputs.ingress[i].toPort = ConfiguredPort
        /\ \A t \in DeclsOf({"aws.lb.TargetGroup"}) : t.inputs.port = ConfiguredPort
        /\ \A t \in TaskDefs :
              LET c == t.inputs.containerDefinitions[1]
              IN  /\ Len(c.portMappings) = 1
                  /\ c.portMappings[1].containerPort = ConfiguredPort
                  /\ EnvValue(c, "PORT") = PortText
                  /\ c.healthCheck = <<"c","u","r","l"," ","-","f"," ","h","t","t","p",":","/","/","l","o","c","a","l","h","o","s","t",":">> \o PortText
                                     \o <<"/","h","e","a","l","t","h"," ","|","|"," ","e","x","i","t"," ","1">>
        /\ \A s \in Services : \A i \in 1..Len(s.inputs.loadBalancers) :
              s.inputs.loadBalancers[i].containerPort = ConfiguredPort

\* a template build with containerPort 8080 has run to its end: all six places
\* exist
C27_Witness ==
    /\ unit = "template" /\ pc = "done"
    /\ config.containerPort = Some(<<"8","0","8","0">>)
    /\ \E g \in AppSgs : Len(g.inputs.ingress) = 1
    /\ DeclsOf({"aws.lb.TargetGroup"}) # {}
    /\ \E s \in Services : Len(s.inputs.loadBalancers) = 1

HttpsListeners == {l \in DeclsOf({"aws.lb.Listener"}) : l.inputs.port = 443}

\* C28: createAlb never returns an absent httpsListenerArn: called with a
\* certificate ARN it declares an HTTPS listener on port 443 with that
\* certificate and returns that listener's ARN; called without one it declares
\* no HTTPS listener and returns the HTTP listener's ARN.
C28_HttpsListenerArn ==
    (unit = "createAlb" /\ pc = "returned") =>
        /\ "httpsListenerArn" \in DOMAIN exports
        /\ \E l \in DeclsOf({"aws.lb.Listener"}) :
              exports.httpsListenerArn = Out(l.name, "arn")
        /\ IF env.inputs.certificateArn # None
           THEN /\ Cardinality(HttpsListeners) = 1
                /\ \A l \in HttpsListeners :
                      /\ l.inputs.protocol = "HTTPS"
                      /\ l.inputs.certificateArn = Get(env.inputs.certificateArn)
                      /\ exports.httpsListenerArn = Out(l.name, "arn")
           ELSE /\ HttpsListeners = {}
                /\ \A l \in HttpListeners : exports.httpsListenerArn = Out(l.name, "arn")
                /\ exports.httpsListenerArn = exports.httpListenerArn

\* createAlb has returned from a call without a certificate ARN
C28_Witness ==
    /\ unit = "createAlb" /\ pc = "returned"
    /\ env.inputs.certificateArn = None
    /\ Cardinality(HttpListeners) = 1
    /\ exports.httpsListenerArn = exports.httpListenerArn

DefaultSgId == Out(<<"p","o","r","t","f","o","l","i","o","-","d","e","v","-","d","e","f","a","u","l","t","-","s","g">>, "id")

DbSgs == {g \in DeclsOf({"aws.ec2.SecurityGroup"}) : g.name = <<"p","o","r","t","f","o","l","i","o","-","d","e","v","-","d","b","-","s","g">>}

\* C29: the database security group of the platform admits exactly the
\* platform's default security group, on TCP port 5432 only and with no CIDR
\* block; a platform deployed with the database exports that default group, and
\* every app service built against it lists the group among its security groups.
C29_AppsReachDatabase ==
    /\ unit = "platform" =>
          /\ \A g \in DbSgs :
                /\ Len(g.inputs.ingress) = 1
                /\ g.inputs.ingress[1].protocol = "tcp"
                /\ g.inputs.ingress[1].fromPort = 5432 /\ g.inputs.ingress[1].toPort = 5432
                /\ g.inputs.ingress[1].cidrBlocks = <<>>
                /\ g.inputs.ingress[1].self = FALSE
                /\ g.inputs.ingress[1].securityGroups = <<DefaultSgId>>
          /\ (pc = "done" /\ exports.dbEndpoint # None) =>
                /\ Cardinality(DbSgs) = 1
                /\ exports.defaultSecurityGroupId = Some(DefaultSgId)
                /\ \E d \in DeclsOf({"aws.ec2.SecurityGroup"}) :
                      Out(d.name, "id") = DefaultSgId
    /\ (AppUnit /\ SnapshotWithDb) =>
          /\ Get(snapshot).defaultSecurityGroupId = Some(DefaultSgId)
          /\ \A s \in Services : Some(DefaultSgId) \in Range(s.inputs.securityGroups)

\* an app service is declared against a platform deployed with the database
C29_Witness ==
    /\ unit = "example" /\ SnapshotWithDb
    /\ \E s \in Services : Len(s.inputs.securityGroups) = 2

\* the configured desired count: 1 when not configured
ConfiguredCount ==
    IF config.desiredCount = None THEN 1
    ELSE IF config.desiredCount = Some(<<"0">>) THEN 0 ELSE 2

UpHourText == IF config.scaleUpHour = None THEN <<"6">> ELSE Get(config.scaleUpHour)

DownHourText == IF config.scaleDownHour = None THEN <<"2","2">> ELSE Get(config.scaleDownHour)

====
